---- MODULE Spec2Model ----
(***************************************************************************)
(* Reward and evaluation engine of Qwen-VL-Series-Finetune.                *)
(*                                                                         *)
(* Texts are sequences of one-character strings.  Python floats are IEEE   *)
(* binary64 values: a float is a record [m, e] standing for m * 2^e, with  *)
(* m an arbitrary-precision natural (little-endian limbs of LimbBits bits) *)
(* that is either zero or has exactly 53 significant bits; every float     *)
(* operation rounds to nearest, ties to even, as CPython's does.  All the  *)
(* floats of the reward functions are non-negative and far from overflow   *)
(* and underflow, so no sign, infinity or subnormal is represented.        *)
(***************************************************************************)
EXTENDS Integers, Sequences, FiniteSets, TLC

\* ------------------------------------------------------------------------
\* Arbitrary-precision naturals (Python int, float mantissas)
\* ------------------------------------------------------------------------

Limb == 32768

LimbBits == 15

Pow2(k) == 2 ^ k

RECURSIVE BNorm(_)
BNorm(a) ==
    IF a = <<>> THEN <<>>
    ELSE IF a[Len(a)] = 0 THEN BNorm(SubSeq(a, 1, Len(a) - 1))
    ELSE a

RECURSIVE BAddC(_, _, _)
BAddC(a, b, c) ==
    IF a = <<>> /\ b = <<>> THEN (IF c = 0 THEN <<>> ELSE <<c>>)
    ELSE LET x == (IF a = <<>> THEN 0 ELSE Head(a))
                  + (IF b = <<>> THEN 0 ELSE Head(b)) + c
         IN  <<x % Limb>> \o BAddC(IF a = <<>> THEN <<>> ELSE Tail(a),
                                   IF b = <<>> THEN <<>> ELSE Tail(b),
                                   x \div Limb)

BAdd(a, b) == BAddC(a, b, 0)

\* a - b for a >= b
RECURSIVE BSubC(_, _, _)
BSubC(a, b, c) ==
    IF a = <<>> THEN <<>>
    ELSE LET x == Head(a) - (IF b = <<>> THEN 0 ELSE Head(b)) - c
         IN  <<(x + Limb) % Limb>>
             \o BSubC(Tail(a), IF b = <<>> THEN <<>> ELSE Tail(b),
                      IF x < 0 THEN 1 ELSE 0)

BSub(a, b) == BNorm(BSubC(a, b, 0))

\* -1, 0, 1 as a < b, a = b, a > b (both normalised)
RECURSIVE BCmpFrom(_, _, _)
BCmpFrom(a, b, i) ==
    IF i = 0 THEN 0
    ELSE IF a[i] < b[i] THEN -1
    ELSE IF a[i] > b[i] THEN 1
    ELSE BCmpFrom(a, b, i - 1)

BCmp(a, b) ==
    IF Len(a) < Len(b) THEN -1
    ELSE IF Len(a) > Len(b) THEN 1
    ELSE BCmpFrom(a, b, Len(a))

\* a * k + c for 0 <= k, c < Limb
RECURSIVE BMulSmallC(_, _, _)
BMulSmallC(a, k, c) ==
    IF a = <<>> THEN (IF c = 0 THEN <<>> ELSE <<c>>)
    ELSE LET x == Head(a) * k + c
         IN  <<x % Limb>> \o BMulSmallC(Tail(a), k, x \div Limb)

BMulSmall(a, k) == IF k = 0 THEN <<>> ELSE BMulSmallC(a, k, 0)

RECURSIVE BMul(_, _)
BMul(a, b) ==
    IF a = <<>> \/ b = <<>> THEN <<>>
    ELSE LET rest == BMul(a, Tail(b))
         IN  BAdd(BMulSmall(a, Head(b)),
                  IF rest = <<>> THEN <<>> ELSE <<0>> \o rest)

BFromInt(k) == IF k = 0 THEN <<>> ELSE BNorm(<<k % Limb, (k \div Limb) % Limb, k \div (Limb * Limb)>>)

\* the natural written with the decimal digits ds
RECURSIVE BFromDigits(_)
BFromDigits(ds) ==
    IF ds = <<>> THEN <<>>
    ELSE BAdd(BMulSmall(BFromDigits(SubSeq(ds, 1, Len(ds) - 1)), 10),
              BFromInt(ds[Len(ds)]))

TopBits(x) == CHOOSE n \in 0..LimbBits : Pow2(n) > x /\ (n = 0 \/ Pow2(n - 1) <= x)

BBitLen(a) == IF a = <<>> THEN 0 ELSE LimbBits * (Len(a) - 1) + TopBits(a[Len(a)])

\* bit i of a, bit 0 the least significant
BBit(a, i) ==
    LET q == i \div LimbBits
    IN  IF q + 1 > Len(a) THEN 0 ELSE (a[q + 1] \div Pow2(i % LimbBits)) % 2

\* a * 2^s
BShl(a, s) ==
    IF a = <<>> THEN <<>>
    ELSE [i \in 1..(s \div LimbBits) |-> 0] \o BMulSmallC(a, Pow2(s % LimbBits), 0)

\* a div 2^s
BShr(a, s) ==
    LET q == s \div LimbBits
        r == s % LimbBits
        n == Len(a) - q
        limb(i) == IF i > Len(a) THEN 0 ELSE a[i]
    IN  IF n <= 0 THEN <<>>
        ELSE BNorm([i \in 1..n |->
                 (limb(q + i) \div Pow2(r)) + (limb(q + i + 1) % Pow2(r)) * Pow2(LimbBits - r)])

\* a mod 2^s = 0
BLowZero(a, s) ==
    LET q == s \div LimbBits
        r == s % LimbBits
    IN  /\ \A i \in 1..q : i > Len(a) \/ a[i] = 0
        /\ (q + 1 > Len(a) \/ a[q + 1] % Pow2(r) = 0)

\* Binary long division, one step on st = [q, r, i]: bit i of a is brought
\* down into the remainder r, and the quotient q gets its next bit.
BDivStep(a, b, st) ==
    LET Bit(r2) ==
            IF BCmp(r2, b) >= 0
            THEN [q |-> BMulSmallC(st.q, 2, 1), r |-> BSub(r2, b), i |-> st.i - 1]
            ELSE [q |-> BMulSmallC(st.q, 2, 0), r |-> r2, i |-> st.i - 1]
    IN  Bit(BMulSmallC(st.r, 2, BBit(a, st.i)))

RECURSIVE BDivLoop(_, _, _)
BDivLoop(a, b, st) == IF st.i < 0 THEN st ELSE BDivLoop(a, b, BDivStep(a, b, st))

\* [q |-> a div b, r |-> a mod b] for b # 0: the bits of a above those b has
\* cannot reach b and start the remainder.
BDivMod(a, b) ==
    LET From(top) ==
            IF top < 0 THEN [q |-> <<>>, r |-> a, i |-> -1]
            ELSE BDivLoop(a, b, [q |-> <<>>, r |-> BShr(a, top + 1), i |-> top])
    IN  From(BBitLen(a) - BBitLen(b))

\* ------------------------------------------------------------------------
\* IEEE binary64 arithmetic on non-negative finite values
\* ------------------------------------------------------------------------

MantBits == 53

FZero == [m |-> <<>>, e |-> 0]

\* n * 2^e rounded to nearest, ties to even
FRound(n, e) ==
    LET Carry(q1, e1) ==
            IF BBitLen(q1) > MantBits THEN [m |-> BShr(q1, 1), e |-> e1 + 1]
            ELSE [m |-> q1, e |-> e1]
        \* s low bits are dropped from n, leaving q: up when they exceed half
        \* a unit, or are half a unit and q is odd
        Drop(s, q) ==
            Carry(IF BBit(n, s - 1) = 1 /\ (~BLowZero(n, s - 1) \/ BBit(q, 0) = 1)
                  THEN BAdd(q, <<1>>) ELSE q,
                  e + s)
        Bits(L) ==
            IF L <= MantBits THEN [m |-> BShl(n, MantBits - L), e |-> e - (MantBits - L)]
            ELSE Drop(L - MantBits, BShr(n, L - MantBits))
    IN  IF n = <<>> THEN FZero ELSE Bits(BBitLen(n))

FInt(k) == FRound(BFromInt(k), 0)

FAdd(x, y) ==
    IF x.m = <<>> THEN y
    ELSE IF y.m = <<>> THEN x
    ELSE LET e == IF x.e < y.e THEN x.e ELSE y.e
         IN  FRound(BAdd(BShl(x.m, x.e - e), BShl(y.m, y.e - e)), e)

FMul(x, y) == FRound(BMul(x.m, y.m), x.e + y.e)

\* x / y for y # 0: exact when y is a power of two, else the quotient to 57+ bits
\* with a sticky bit, rounded
FDiv(x, y) ==
    IF x.m = <<>> THEN FZero
    ELSE IF y.m = BShl(<<1>>, MantBits - 1) THEN [m |-> x.m, e |-> x.e - y.e - (MantBits - 1)]
    ELSE LET Sticky(d) ==
                 FRound(BMulSmallC(d.q, 2, IF d.r = <<>> THEN 0 ELSE 1),
                        x.e - y.e - (MantBits + 4) - 1)
         IN  Sticky(BDivMod(BShl(x.m, MantBits + 4), y.m))

\* -1, 0, 1 as x < y, x = y, x > y
FCmp(x, y) ==
    IF x.m = <<>> THEN (IF y.m = <<>> THEN 0 ELSE -1)
    ELSE IF y.m = <<>> THEN 1
    ELSE IF x.e < y.e THEN -1
    ELSE IF x.e > y.e THEN 1
    ELSE BCmp(x.m, y.m)

FLe(x, y) == FCmp(x, y) <= 0

FLt(x, y) == FCmp(x, y) < 0

\* the float a decimal literal num/den denotes (the nearest binary64)
FDec(num, den) == FDiv(FInt(num), FInt(den))

\* Float literals of the sources, as the nearest binary64 (limbs little-endian).
F_0_0 == FZero

\* 1.0 = 0x1.0000000000000p+0
F_1_0 == [m |-> <<0, 0, 0, 128>>, e |-> -52]

\* 3.0 = 0x1.8000000000000p+1
F_3_0 == [m |-> <<0, 0, 0, 192>>, e |-> -51]

\* 0.1 = 0x1.999999999999ap-4
F_0_1 == [m |-> <<6554, 13107, 26214, 204>>, e |-> -56]

\* 0.75 = 0x1.8000000000000p-1
F_0_75 == [m |-> <<0, 0, 0, 192>>, e |-> -53]

\* 0.25 = 0x1.0000000000000p-2
F_0_25 == [m |-> <<0, 0, 0, 128>>, e |-> -54]

\* 1.1 = 0x1.199999999999ap+0
F_1_1 == [m |-> <<6554, 13107, 26214, 140>>, e |-> -52]

\* math.log2(3) = 1.584962500721156 = 0x1.95c01a39fbd68p+0
F_LOG2_3 == [m |-> <<15720, 18239, 28678, 202>>, e |-> -52]

\* The literals are the correctly rounded values of the decimals they are written as.
FloatLiteralsRound ==
    /\ F_1_0 = FInt(1)
    /\ F_3_0 = FInt(3)
    /\ F_0_1 = FDec(1, 10)
    /\ F_0_75 = FDec(75, 100)
    /\ F_0_25 = FDec(25, 100)
    /\ F_1_1 = FDec(11, 10)
    /\ F_LOG2_3 = FDiv(FRound(BFromDigits(<<1, 5, 8, 4, 9, 6, 2, 5, 0, 0, 7, 2, 1, 1, 5, 6>>), 0),
                       FRound(BFromDigits(<<1, 0, 0, 0, 0, 0, 0, 0, 0, 0, 0, 0, 0, 0, 0, 0>>), 0))

\* math.log2(k) for the k the rewards use
math_log2(k) == CASE k = 2 -> F_1_0 [] k = 3 -> F_LOG2_3 [] k = 4 -> FInt(2)
                  \* math.log2(5) = 2.321928094887362 = 0x1.2934f0979a371p+1
                  [] k = 5 -> [m |-> <<9073, 4851, 19772, 148>>, e |-> -51]

\* ------------------------------------------------------------------------
\* Texts (Python str): sequences of characters; re and str primitives
\* ------------------------------------------------------------------------

\* A character outside ASCII is written by its code point: "U+00E9" is one
\* character (a letter), "U+0663" one character (ARABIC-INDIC DIGIT THREE).
AsciiDigits == {"0", "1", "2", "3", "4", "5", "6", "7", "8", "9"}

\* \d of a str pattern: every Unicode decimal digit
Digits == AsciiDigits \cup {"U+0663"}

IsDigit(c) == c \in Digits

\* \s of a str pattern, and what str.strip() strips
Spaces == {" ", "\n", "\t", "\r"}

IsSpace(c) == c \in Spaces

UpperCase == {"A", "B", "C", "D", "E", "F", "G", "H", "I", "J", "K", "L", "M",
              "N", "O", "P", "Q", "R", "S", "T", "U", "V", "W", "X", "Y", "Z"}

LowerCase == {"a", "b", "c", "d", "e", "f", "g", "h", "i", "j", "k", "l", "m",
              "n", "o", "p", "q", "r", "s", "t", "u", "v", "w", "x", "y", "z"}

\* \w of a str pattern
IsWordChar(c) == c \in UpperCase \cup LowerCase \cup {"_", "U+00E9"} \/ IsDigit(c)

\* str.lower() on one character
LowerChar(c) ==
    CASE c = "A" -> "a" [] c = "B" -> "b" [] c = "C" -> "c" [] c = "D" -> "d"
      [] c = "E" -> "e" [] c = "F" -> "f" [] c = "G" -> "g" [] c = "H" -> "h"
      [] c = "I" -> "i" [] c = "J" -> "j" [] c = "K" -> "k" [] c = "L" -> "l"
      [] c = "M" -> "m" [] c = "N" -> "n" [] c = "O" -> "o" [] c = "P" -> "p"
      [] c = "Q" -> "q" [] c = "R" -> "r" [] c = "S" -> "s" [] c = "T" -> "t"
      [] c = "U" -> "u" [] c = "V" -> "v" [] c = "W" -> "w" [] c = "X" -> "x"
      [] c = "Y" -> "y" [] c = "Z" -> "z" [] OTHER -> c

Lower(t) == [i \in 1..Len(t) |-> LowerChar(t[i])]

\* The least element of a non-empty set of integers.
MinOf(S) == CHOOSE x \in S : \A y \in S : x <= y

MaxOf(S) == CHOOSE x \in S : \A y \in S : x >= y

\* The first index j in lo..hi with t[j] in S, or hi + 1 when there is none.
FirstIn(t, lo, hi, S) ==
    IF \E j \in lo..hi : t[j] \in S
    THEN CHOOSE j \in lo..hi : t[j] \in S /\ \A k \in lo..(j - 1) : t[k] \notin S
    ELSE hi + 1

\* The first index j in lo..hi with t[j] outside S, or hi + 1 when there is none.
FirstNotIn(t, lo, hi, S) ==
    IF \E j \in lo..hi : t[j] \notin S
    THEN CHOOSE j \in lo..hi : t[j] \notin S /\ \A k \in lo..(j - 1) : t[k] \in S
    ELSE hi + 1

\* The last index j in lo..hi with t[j] outside S, or lo - 1 when there is none.
LastNotIn(t, lo, hi, S) ==
    IF \E j \in lo..hi : t[j] \notin S
    THEN CHOOSE j \in lo..hi : t[j] \notin S /\ \A k \in (j + 1)..hi : t[k] \in S
    ELSE lo - 1

\* str.strip()
Strip(t) ==
    LET Cut(a) == IF a > Len(t) THEN <<>> ELSE SubSeq(t, a, LastNotIn(t, 1, Len(t), Spaces))
    IN  Cut(FirstNotIn(t, 1, Len(t), Spaces))

\* The ascending sequence of a finite set of integers.
RECURSIVE SortedSeq(_)
SortedSeq(S) == IF S = {} THEN <<>> ELSE <<MinOf(S)>> \o SortedSeq(S \ {MinOf(S)})

\* re.findall(r"\d+", text): the maximal digit runs, left to right
FindAllDigits(text) ==
    LET Runs(order) ==
            [k \in 1..Len(order) |->
                SubSeq(text, order[k], FirstNotIn(text, order[k], Len(text), Digits) - 1)]
    IN  Runs(SortedSeq({i \in 1..Len(text) :
                          IsDigit(text[i]) /\ (i = 1 \/ ~IsDigit(text[i - 1]))}))

\* Results of a call: a value, None, or a raised exception.
PyOk(v) == [kind |-> "ok", val |-> v]

PyNone == [kind |-> "None", val |-> <<>>]

PyRaise(exc) == [kind |-> exc, val |-> <<>>]

Raised(r) == r.kind \notin {"ok", "None"}

\* sys.int_info.default_max_str_digits: int(str) of more digits raises ValueError
INT_MAX_STR_DIGITS == 4300

DigitVal(c) ==
    CASE c = "0" -> 0 [] c = "1" -> 1 [] c = "2" -> 2 [] c = "3" -> 3 [] c = "4" -> 4
      [] c = "5" -> 5 [] c = "6" -> 6 [] c = "7" -> 7 [] c = "8" -> 8 [] c = "9" -> 9
      [] c = "U+0663" -> 3

\* The value of a token of digits (the tokens of Corpus have at most 9 digits,
\* or more than INT_MAX_STR_DIGITS).
RECURSIVE DecValue(_)
DecValue(ds) ==
    IF ds = <<>> THEN 0
    ELSE 10 * DecValue(SubSeq(ds, 1, Len(ds) - 1)) + DigitVal(ds[Len(ds)])

\* int(tok) for a token of digits
PyInt(tok) ==
    IF Len(tok) > INT_MAX_STR_DIGITS THEN PyRaise("ValueError") ELSE PyOk(DecValue(tok))

\* str(n) for n >= 0
RECURSIVE PyStr(_)
PyStr(n) ==
    LET d == <<"0", "1", "2", "3", "4", "5", "6", "7", "8", "9">>[(n % 10) + 1]
    IN  IF n < 10 THEN <<d>> ELSE PyStr(n \div 10) \o <<d>>

\* [int(tok) for tok in toks]: the first token int() refuses raises
IntList(toks) ==
    IF \E k \in 1..Len(toks) : Raised(PyInt(toks[k])) THEN PyRaise("ValueError")
    ELSE PyOk([k \in 1..Len(toks) |-> PyInt(toks[k]).val])

SeqToSet(q) == {q[k] : k \in 1..Len(q)}

\* ------------------------------------------------------------------------
\* reward_funcs_prompt1.py
\* ------------------------------------------------------------------------

W_NDCG == F_1_0

\* The weight of the consistency term of Prompt-2, in the place of W_FORMAT.
FormatWeightQuarter == F_0_25

W_FORMAT == F_0_1

\* The parser with the range test of line 24 as rid < 0.
ParseRegionIdsFromZero(text) ==
    LET Check(ids) ==
            IF Raised(ids) THEN ids
            ELSE IF Len(ids.val) # 3 THEN PyNone
            ELSE IF \E k \in 1..3 : ids.val[k] < 0 \/ ids.val[k] > 16 THEN PyNone
            ELSE IF Cardinality(SeqToSet(ids.val)) # 3 THEN PyNone
            ELSE ids
    IN  Check(IntList(FindAllDigits(text)))

_parse_region_ids_any(text) ==
    LET Check(ids) ==
            IF Raised(ids) THEN ids
            ELSE IF Len(ids.val) # 3 THEN PyNone
            ELSE IF \E k \in 1..3 : ids.val[k] < 1 \/ ids.val[k] > 16 THEN PyNone
            ELSE IF Cardinality(SeqToSet(ids.val)) # 3 THEN PyNone
            ELSE ids
    IN  Check(IntList(FindAllDigits(text)))

_parse_gt_ids(text) == IntList(FindAllDigits(text))

\* A dict is the sequence of its [key, value] items in insertion order.
DictHas(d, key) == \E k \in 1..Len(d) : d[k].key = key

\* d.get(key, default)
DictGet(d, key, default) ==
    IF DictHas(d, key) THEN d[CHOOSE k \in 1..Len(d) : d[k].key = key].value ELSE default

\* list(d.values())
DictValues(d) == [k \in 1..Len(d) |-> d[k].value]

\* The loop of lines 54-57 without the continue: a repeated GT ID takes the
\* grade of its last occurrence.
RECURSIVE RelByIdLoopOverwrite(_, _, _)
RelByIdLoopOverwrite(gt, rank, rel_by_id) ==
    IF rank >= Len(gt) \/ rank >= 3 THEN rel_by_id
    ELSE RelByIdLoopOverwrite(gt, rank + 1,
             IF DictHas(rel_by_id, gt[rank + 1])
             THEN [k \in 1..Len(rel_by_id) |->
                      IF rel_by_id[k].key = gt[rank + 1]
                      THEN [key |-> gt[rank + 1], value |-> 3 - rank] ELSE rel_by_id[k]]
             ELSE Append(rel_by_id, [key |-> gt[rank + 1], value |-> 3 - rank]))

\* The loop of lines 54-57 over enumerate(gt[:3]); rel_by_id is the dict so far.
RECURSIVE RelByIdLoop(_, _, _)
RelByIdLoop(gt, rank, rel_by_id) ==
    IF rank >= Len(gt) \/ rank >= 3 THEN rel_by_id
    ELSE RelByIdLoop(gt, rank + 1,
                     IF DictHas(rel_by_id, gt[rank + 1]) THEN rel_by_id
                     ELSE Append(rel_by_id, [key |-> gt[rank + 1], value |-> 3 - rank]))

\* sorted(values, reverse=True)
RECURSIVE SortedDesc(_)
SortedDesc(q) ==
    IF q = <<>> THEN <<>>
    ELSE LET Pick(k) == <<q[k]>> \o SortedDesc(SubSeq(q, 1, k - 1) \o SubSeq(q, k + 1, Len(q)))
         IN  Pick(CHOOSE i \in 1..Len(q) : \A j \in 1..Len(q) : q[i] >= q[j])

\* The term of a binary (hit or miss) relevance.
DcgTermBinary(rel, j) == FDiv(FInt(IF rel > 0 THEN 1 ELSE 0), math_log2(j + 1))

\* (2**rel - 1) / math.log2(j + 1)
DcgTerm(rel, j) == FDiv(FInt(2 ^ rel - 1), math_log2(j + 1))

\* The accumulation loops of lines 59-62 and 69-72: acc += term for j in range(j, stop).
RECURSIVE DcgLoop(_, _, _, _)
DcgLoop(rels, j, stop, acc) ==
    IF j >= stop THEN acc ELSE DcgLoop(rels, j + 1, stop, FAdd(acc, DcgTerm(rels[j], j)))

_ndcg_at_3(pred, gt) ==
    LET Min3(n) == IF n < 3 THEN n ELSE 3
        Ideal(dcg, ideal_rels) ==
            IF Min3(Len(ideal_rels)) = 0 THEN F_0_0
            ELSE FDiv(dcg, DcgLoop(ideal_rels, 1, Min3(Len(ideal_rels)) + 1, F_0_0))
        Graded(rel_by_id) ==
            Ideal(DcgLoop([j \in 1..3 |-> DictGet(rel_by_id, pred[j], 0)], 1, 4, F_0_0),
                  SortedDesc(DictValues(rel_by_id)))
    IN  Graded(RelByIdLoop(gt, 0, <<>>))

\* One iteration of the loop of _strict_format_score (lines 83-85).
\* The score of line 85 with the test turned around.
StrictFormatInverted(completion) ==
    LET Score(pred_ids) ==
            IF Raised(pred_ids) THEN pred_ids
            ELSE PyOk(IF pred_ids.kind = "None" THEN F_1_0 ELSE F_0_0)
    IN  Score(_parse_region_ids_any(completion))

StrictFormatOne(completion) ==
    LET Score(pred_ids) ==
            IF Raised(pred_ids) THEN pred_ids
            ELSE PyOk(IF pred_ids.kind # "None" THEN F_1_0 ELSE F_0_0)
    IN  Score(_parse_region_ids_any(completion))

\* A list built by a loop whose iterations may raise.
ListOf(items) ==
    IF \E k \in 1..Len(items) : Raised(items[k])
    THEN PyRaise((items[MinOf({k \in 1..Len(items) : Raised(items[k])})]).kind)
    ELSE PyOk([k \in 1..Len(items) |-> items[k].val])

_strict_format_score(comps) ==
    ListOf([k \in 1..Len(comps) |-> StrictFormatOne(comps[k])])

\* One iteration of the loop of _ndcg3_score (lines 95-106).
Ndcg3One(completion, gt) ==
    LET Graded(pred_ids, gt_ids) ==
            IF Raised(gt_ids) THEN gt_ids
            ELSE IF gt_ids.val = <<>> THEN PyOk(F_0_0)
            ELSE PyOk(_ndcg_at_3(pred_ids.val, gt_ids.val))
        Score(pred_ids) ==
            IF Raised(pred_ids) THEN pred_ids
            ELSE IF pred_ids.kind = "None" THEN PyOk(F_0_0)
            ELSE Graded(pred_ids, _parse_gt_ids(gt))
    IN  Score(_parse_region_ids_any(completion))

\* zip(a, b) stops at the shorter sequence
ZipLen(a, b) == IF Len(a) < Len(b) THEN Len(a) ELSE Len(b)

_ndcg3_score(comps, gts) ==
    ListOf([k \in 1..ZipLen(comps, gts) |-> Ndcg3One(comps[k], gts[k])])

\* The list comprehension of lines 117-120.
Prompt1Combine(ndcg_scores, format_scores) ==
    IF Raised(ndcg_scores) THEN ndcg_scores
    ELSE IF Raised(format_scores) THEN format_scores
    ELSE PyOk([k \in 1..ZipLen(ndcg_scores.val, format_scores.val) |->
                  FAdd(FMul(W_NDCG, ndcg_scores.val[k]),
                       FMul(W_FORMAT, format_scores.val[k]))])

prompt1_reward(comps, gts) ==
    Prompt1Combine(_ndcg3_score(comps, gts), _strict_format_score(comps))

\* ------------------------------------------------------------------------
\* reward_funcs_prompt2.py
\* ------------------------------------------------------------------------

W_ACC == F_0_75

W_CONS == F_0_25

W_FMT == F_0_1

TIME_LABELS == {<<"s", "p", "e", "e", "c", "h">>, <<"n", "o", "n", "-", "s", "p", "e", "e", "c", "h">>}

FREQ_LABELS == {<<"l", "o", "w">>, <<"m", "i", "d">>, <<"h", "i", "g", "h">>}

PHON_LABELS == {<<"c", "o", "n", "s", "o", "n", "a", "n", "t">>, <<"v", "o", "w", "e", "l">>, <<"u", "n", "v", "o", "i", "c", "e", "d">>}

\* Each pattern \bw\b, or \ba[- ]?b\b, is the set of the words it matches.
TIME_LEXICON == <<
       [label |-> <<"s", "p", "e", "e", "c", "h">>,
        patterns |-> <<{<<"s", "p", "e", "e", "c", "h">>},
                      {<<"v", "o", "i", "c", "e", "d">>},
                      {<<"s", "p", "o", "k", "e", "n">>}>>],
       [label |-> <<"n", "o", "n", "-", "s", "p", "e", "e", "c", "h">>,
        patterns |-> <<{<<"s", "i", "l", "e", "n", "c", "e">>},
                      {<<"p", "a", "u", "s", "e">>},
                      {<<"n", "o", "n", "-", "s", "p", "e", "e", "c", "h">>, <<"n", "o", "n", " ", "s", "p", "e", "e", "c", "h">>, <<"n", "o", "n", "s", "p", "e", "e", "c", "h">>},
                      {<<"b", "a", "c", "k", "g", "r", "o", "u", "n", "d">>},
                      {<<"n", "o", "i", "s", "e", "-", "o", "n", "l", "y">>, <<"n", "o", "i", "s", "e", " ", "o", "n", "l", "y">>, <<"n", "o", "i", "s", "e", "o", "n", "l", "y">>},
                      {<<"u", "n", "v", "o", "i", "c", "e", "d">>}>>] >>

FREQ_LEXICON == <<
       [label |-> <<"l", "o", "w">>,
        patterns |-> <<{<<"l", "o", "w">>}>>],
       [label |-> <<"m", "i", "d">>,
        patterns |-> <<{<<"m", "i", "d">>},
                      {<<"m", "i", "d", "d", "l", "e">>}>>],
       [label |-> <<"h", "i", "g", "h">>,
        patterns |-> <<{<<"h", "i", "g", "h">>}>>] >>

PHON_LEXICON == <<
       [label |-> <<"v", "o", "w", "e", "l">>,
        patterns |-> <<{<<"v", "o", "w", "e", "l">>},
                      {<<"f", "o", "r", "m", "a", "n", "t">>}>>],
       [label |-> <<"c", "o", "n", "s", "o", "n", "a", "n", "t">>,
        patterns |-> <<{<<"c", "o", "n", "s", "o", "n", "a", "n", "t">>},
                      {<<"s", "t", "o", "p">>},
                      {<<"f", "r", "i", "c", "a", "t", "i", "v", "e">>}>>],
       [label |-> <<"u", "n", "v", "o", "i", "c", "e", "d">>,
        patterns |-> <<{<<"u", "n", "v", "o", "i", "c", "e", "d">>},
                      {<<"v", "o", "i", "c", "e", "l", "e", "s", "s">>},
                      {<<"a", "s", "p", "i", "r", "a", "t", "i", "o", "n">>},
                      {<<"b", "u", "r", "s", "t">>}>>] >>

\* re.sub(r"\s+", " ", text.strip().lower())
\* _normalize_space without the lower() call.
NormalizeSpaceKeepCase(text) ==
    LET Collapse(s) ==
            LET Pick(kept) ==
                    [k \in 1..Len(kept) |-> IF IsSpace(s[kept[k]]) THEN " " ELSE s[kept[k]]]
            IN  Pick(SortedSeq({i \in 1..Len(s) : ~IsSpace(s[i]) \/ ~IsSpace(s[i - 1])}))
    IN  Collapse(Strip(text))

_normalize_space(text) ==
    LET Collapse(s) ==
            LET Pick(kept) ==
                    [k \in 1..Len(kept) |-> IF IsSpace(s[kept[k]]) THEN " " ELSE s[kept[k]]]
            IN  Pick(SortedSeq({i \in 1..Len(s) : ~IsSpace(s[i]) \/ ~IsSpace(s[i - 1])}))
    IN  Collapse(Lower(Strip(text)))

_normalize_time(value) ==
    LET Label(v) ==
            IF v \in TIME_LABELS THEN PyOk(v)
            ELSE IF v \in {<<"n", "o", "n", "s", "p", "e", "e", "c", "h">>, <<"n", "o", "n", " ", "s", "p", "e", "e", "c", "h">>} THEN PyOk(<<"n", "o", "n", "-", "s", "p", "e", "e", "c", "h">>)
            ELSE PyNone
    IN  Label(_normalize_space(value))

_normalize_freq(value) ==
    LET Label(v) ==
            IF v \in FREQ_LABELS THEN PyOk(v)
            ELSE IF v = <<"m", "i", "d", "d", "l", "e">> THEN PyOk(<<"m", "i", "d">>)
            ELSE PyNone
    IN  Label(_normalize_space(value))

_normalize_phon(value) ==
    LET Label(v) ==
            IF v \in PHON_LABELS THEN PyOk(v)
            ELSE IF v = <<"v", "o", "i", "c", "e", "l", "e", "s", "s">> THEN PyOk(<<"u", "n", "v", "o", "i", "c", "e", "d">>)
            ELSE PyNone
    IN  Label(_normalize_space(value))

NoMatch == [ok |-> FALSE]

\* What a group \s*([^,]+?)\s*, captures from the text between two commas.
FieldCapture(seg) ==
    LET Of(s) == IF s = <<>> THEN <<seg[Len(seg)]>> ELSE s
    IN  Of(Strip(seg))

\* _REGION_PATTERN.match(text, i) at an i with text[i] = "(". The groups are
\* fixed by the commas: a..b-1 the digits, c0 the comma after them, c1, c2, c3
\* the next three commas, each after a non-empty field, and q the first ")"
\* after c3.
RegionMatchAt(text, i) ==
    LET n == Len(text)
        AtQ(a, b, c0, c1, c2, c3, q) ==
            IF a > n \/ b = a THEN NoMatch
            ELSE IF c0 > n THEN NoMatch
            ELSE IF text[c0] # "," THEN NoMatch
            ELSE IF c1 > n \/ c1 = c0 + 1 THEN NoMatch
            ELSE IF c2 > n \/ c2 = c1 + 1 THEN NoMatch
            ELSE IF c3 > n \/ c3 = c2 + 1 THEN NoMatch
            ELSE IF q > n THEN NoMatch
            ELSE [ok |-> TRUE, end |-> q,
                  groups |-> <<SubSeq(text, a, b - 1),
                               FieldCapture(SubSeq(text, c0 + 1, c1 - 1)),
                               FieldCapture(SubSeq(text, c1 + 1, c2 - 1)),
                               FieldCapture(SubSeq(text, c2 + 1, c3 - 1)),
                               Strip(SubSeq(text, c3 + 1, q - 1))>>]
        AtC3(a, b, c0, c1, c2, c3) == AtQ(a, b, c0, c1, c2, c3, FirstIn(text, c3 + 1, n, {")"}))
        AtC2(a, b, c0, c1, c2) == AtC3(a, b, c0, c1, c2, FirstIn(text, c2 + 1, n, {","}))
        AtC1(a, b, c0, c1) == AtC2(a, b, c0, c1, FirstIn(text, c1 + 1, n, {","}))
        AtC0(a, b, c0) == AtC1(a, b, c0, FirstIn(text, c0 + 1, n, {","}))
        AtB(a, b) == AtC0(a, b, FirstNotIn(text, b, n, Spaces))
        AtA(a) == AtB(a, FirstNotIn(text, a, n, Digits))
    IN  AtA(FirstNotIn(text, i + 1, n, Spaces))

\* _REGION_PATTERN.findall(text): leftmost match from pos, resumed after it.
RECURSIVE RegionFindAllFrom(_, _, _)
RegionFindAllFrom(text, pos, out) ==
    LET Resume(m) == RegionFindAllFrom(text, m.end + 1, Append(out, m.groups))
        From(starts) == IF starts = {} THEN out ELSE Resume(RegionMatchAt(text, MinOf(starts)))
    IN  From({i \in pos..Len(text) : text[i] = "(" /\ RegionMatchAt(text, i).ok})

RegionFindAll(text) == RegionFindAllFrom(text, 1, <<>>)

\* The loop body without the test of lines 134-135 for a Cn seen before.
ParseTupleStepNoSeen(st, g) ==
    LET Fields(cn, t, f, p, en) ==
            IF Raised(cn) THEN [st EXCEPT !.ret = cn]
            ELSE IF cn.val <= 0 THEN [st EXCEPT !.ret = PyNone]
            ELSE IF t.kind = "None" \/ f.kind = "None" \/ p.kind = "None"
                 THEN [st EXCEPT !.ret = PyNone]
            ELSE IF Len(en) = 0 THEN [st EXCEPT !.ret = PyNone]
            ELSE [st EXCEPT !.seen_cn = @ \cup {cn.val},
                            !.parsed = Append(@, [Cn |-> PyStr(cn.val), T |-> t.val,
                                                  F |-> f.val, P |-> p.val, En |-> en])]
    IN  Fields(PyInt(g[1]), _normalize_time(g[2]), _normalize_freq(g[3]),
               _normalize_phon(g[4]), Strip(g[5]))

\* The body of the loop of _parse_region_tuples (lines 125-151) for one match.
ParseTupleStep(st, g) ==
    LET Fields(cn, t, f, p, en) ==
            IF Raised(cn) THEN [st EXCEPT !.ret = cn]
            ELSE IF cn.val <= 0 THEN [st EXCEPT !.ret = PyNone]
            ELSE IF cn.val \in st.seen_cn THEN [st EXCEPT !.ret = PyNone]
            ELSE IF t.kind = "None" \/ f.kind = "None" \/ p.kind = "None"
                 THEN [st EXCEPT !.ret = PyNone]
            ELSE IF Len(en) = 0 THEN [st EXCEPT !.ret = PyNone]
            ELSE [st EXCEPT !.seen_cn = @ \cup {cn.val},
                            !.parsed = Append(@, [Cn |-> PyStr(cn.val), T |-> t.val,
                                                  F |-> f.val, P |-> p.val, En |-> en])]
    IN  Fields(PyInt(g[1]), _normalize_time(g[2]), _normalize_freq(g[3]),
               _normalize_phon(g[4]), Strip(g[5]))

RECURSIVE ParseTupleLoop(_, _, _)
ParseTupleLoop(matches, k, st) ==
    IF st.ret.kind # "running" THEN st.ret
    ELSE IF k > Len(matches) THEN PyOk(st.parsed)
    ELSE ParseTupleLoop(matches, k + 1, ParseTupleStep(st, matches[k]))

_parse_region_tuples(text) ==
    LET Of(matches) ==
            IF Len(matches) # 3 THEN PyNone
            ELSE ParseTupleLoop(matches, 1, [ret |-> [kind |-> "running", val |-> <<>>],
                                             seen_cn |-> {}, parsed |-> <<>>])
    IN  Of(RegionFindAll(text))

\* The start positions of the matches of one pattern in the lowered text
\* (re.finditer): the word, with \b on both sides.
PatternStarts(text, pat) ==
    {i \in 1..Len(text) :
        \E w \in pat :
            /\ i + Len(w) - 1 <= Len(text)
            /\ SubSeq(text, i, i + Len(w) - 1) = w
            /\ (i = 1 \/ ~IsWordChar(text[i - 1]))
            /\ (i + Len(w) - 1 = Len(text) \/ ~IsWordChar(text[i + Len(w)]))}

\* 10**9
NoPos == 1000000000

\* The inner loop (lines 176-181): the count and the first position of a label.
RECURSIVE LabelCount(_, _, _, _)
LabelCount(text, patterns, k, acc) ==
    LET Add(starts) ==
            IF starts = {} THEN acc
            ELSE [count     |-> acc.count + Cardinality(starts),
                  first_pos |-> IF MinOf(starts) - 1 < acc.first_pos
                                THEN MinOf(starts) - 1 ELSE acc.first_pos]
    IN  IF k > Len(patterns) THEN acc
        ELSE LabelCount(text, patterns, k + 1, Add(PatternStarts(text, patterns[k])))

\* The outer loop with the comparison count > best_count only.
RECURSIVE LexiconLoopCountOnly(_, _, _, _)
LexiconLoopCountOnly(text, lexicon, k, best) ==
    LET Better(c) ==
            IF c.count > best.count
            THEN [label |-> PyOk(lexicon[k].label), count |-> c.count, pos |-> c.first_pos]
            ELSE best
    IN  IF k > Len(lexicon) THEN best.label
        ELSE LexiconLoopCountOnly(text, lexicon, k + 1,
                 Better(LabelCount(text, lexicon[k].patterns, 1,
                                   [count |-> 0, first_pos |-> NoPos])))

\* The outer loop (lines 173-186) over the labels in dict order.
RECURSIVE LexiconLoop(_, _, _, _)
LexiconLoop(text, lexicon, k, best) ==
    LET Better(c) ==
            IF c.count > best.count
               \/ (c.count = best.count /\ c.count > 0 /\ c.first_pos < best.pos)
            THEN [label |-> PyOk(lexicon[k].label), count |-> c.count, pos |-> c.first_pos]
            ELSE best
    IN  IF k > Len(lexicon) THEN best.label
        ELSE LexiconLoop(text, lexicon, k + 1,
                 Better(LabelCount(text, lexicon[k].patterns, 1,
                                   [count |-> 0, first_pos |-> NoPos])))

_extract_label_by_lexicon(en_text, lexicon) ==
    LexiconLoop(Lower(en_text), lexicon, 1, [label |-> PyNone, count |-> 0, pos |-> NoPos])

_independent_extract_from_en(en_text) ==
    [T |-> _extract_label_by_lexicon(en_text, TIME_LEXICON),
     F |-> _extract_label_by_lexicon(en_text, FREQ_LEXICON),
     P |-> _extract_label_by_lexicon(en_text, PHON_LEXICON)]

\* 1.0 if cond else 0.0
Indicator(cond) == IF cond THEN F_1_0 ELSE F_0_0

\* The three indicators summed, without the division by 3.0.
ThreeFieldSum(hitT, hitF, hitP) ==
    FAdd(FAdd(FAdd(F_0_0, Indicator(hitT)), Indicator(hitF)), Indicator(hitP))

\* score = 0.0, then three times score += 1.0 if hit else 0.0, then score / 3.0
ThreeFieldScore(hitT, hitF, hitP) ==
    FDiv(FAdd(FAdd(FAdd(F_0_0, Indicator(hitT)), Indicator(hitF)), Indicator(hitP)), F_3_0)

\* The accuracy with the third comparison made on F again instead of P.
FieldAccuracyFreqTwice(pred, gt) ==
    IF gt.kind = "None" THEN F_0_0
    ELSE ThreeFieldScore(pred.T = gt.val.T, pred.F = gt.val.F, pred.F = gt.val.F)

\* gt is PyNone (dict.get found nothing) or PyOk(region)
_region_field_accuracy(pred, gt) ==
    IF gt.kind = "None" THEN F_0_0
    ELSE ThreeFieldScore(pred.T = gt.val.T, pred.F = gt.val.F, pred.P = gt.val.P)

_region_consistency(pred) ==
    LET Score(en_extracted) ==
            ThreeFieldScore(en_extracted.T.kind # "None" /\ en_extracted.T.val = pred.T,
                            en_extracted.F.kind # "None" /\ en_extracted.F.val = pred.F,
                            en_extracted.P.kind # "None" /\ en_extracted.P.val = pred.P)
    IN  Score(_independent_extract_from_en(pred.En))

_format_score(text) ==
    LET Of(r) == IF Raised(r) THEN r ELSE PyOk(Indicator(r.kind # "None"))
    IN  Of(_parse_region_tuples(text))

\* gt_by_cn.get(cn) for gt_by_cn = {r["Cn"]: r for r in gt_regions}
GtByCnGet(gt_regions, cn) ==
    LET hits == {k \in 1..Len(gt_regions) : gt_regions[k].Cn = cn}
    IN  IF hits = {} THEN PyNone ELSE PyOk(gt_regions[MaxOf(hits)])

\* The locals of one iteration of the region loop (lines 258-263).
RegionTerms(pred, gt_regions, fmt) ==
    [Cn          |-> pred.Cn,
     region_acc  |-> _region_field_accuracy(pred, GtByCnGet(gt_regions, pred.Cn)),
     region_cons |-> _region_consistency(pred),
     region_fmt  |-> fmt]

\* The weighted term without its format part.
WeightedTermNoFormat(w_acc, w_cons, w_fmt, r) ==
    FAdd(FMul(w_acc, r.region_acc), FMul(w_cons, r.region_cons))

\* w_acc * region_acc + w_cons * region_cons + w_fmt * region_fmt
WeightedTerm(w_acc, w_cons, w_fmt, r) ==
    FAdd(FAdd(FMul(w_acc, r.region_acc), FMul(w_cons, r.region_cons)), FMul(w_fmt, r.region_fmt))

\* reward = 0.0; for pred in pred_regions: reward += term
RECURSIVE RewardLoop(_, _, _, _, _, _)
RewardLoop(w_acc, w_cons, w_fmt, terms, k, reward) ==
    IF k > Len(terms) THEN reward
    ELSE RewardLoop(w_acc, w_cons, w_fmt, terms, k + 1,
                    FAdd(reward, WeightedTerm(w_acc, w_cons, w_fmt, terms[k])))

\* One iteration of the loop of prompt2_reward (lines 242-267): the reward
\* appended and the per-region locals behind it.
Prompt2One(w_acc, w_cons, w_fmt, completion, gt_text) ==
    LET Zero(kind) == [kind |-> kind, val |-> F_0_0, regions |-> <<>>]
        Scored(terms) ==
            [kind |-> "ok",
             val |-> FDiv(RewardLoop(w_acc, w_cons, w_fmt, terms, 1, F_0_0), F_3_0),
             regions |-> terms]
        Terms(pred_regions, gt_regions, fmt) ==
            [k \in 1..Len(pred_regions) |-> RegionTerms(pred_regions[k], gt_regions, fmt)]
        Pair(pred_regions, gt_regions) ==
            IF Raised(pred_regions) THEN Zero(pred_regions.kind)
            ELSE IF Raised(gt_regions) THEN Zero(gt_regions.kind)
            ELSE IF pred_regions.kind = "None" THEN Zero("ok")
            ELSE IF gt_regions.kind = "None" THEN Zero("ok")
            ELSE Scored(Terms(pred_regions.val, gt_regions.val, _format_score(completion).val))
    IN  Pair(_parse_region_tuples(completion), _parse_region_tuples(gt_text))

\* The items of the loop over zip(completions, assistant).
Prompt2Items(w_acc, w_cons, w_fmt, comps, gts) ==
    [k \in 1..ZipLen(comps, gts) |-> Prompt2One(w_acc, w_cons, w_fmt, comps[k], gts[k])]

prompt2_reward(comps, gts) == ListOf(Prompt2Items(W_ACC, W_CONS, W_FMT, comps, gts))

\* ------------------------------------------------------------------------
\* reward_funcs_prompt2_no_field_accuracy.py (same parser and helpers)
\* ------------------------------------------------------------------------

NFA_W_ACC == F_0_0

\* The consistency weight of reward_funcs_prompt2.py kept in the ablation.
AblationConsQuarter == F_0_25

NFA_W_CONS == F_0_0

NFA_W_FMT == F_0_1

prompt2_no_field_accuracy_reward(comps, gts) ==
    ListOf(Prompt2Items(NFA_W_ACC, NFA_W_CONS, NFA_W_FMT, comps, gts))

\* ------------------------------------------------------------------------
\* metrics/localization_metrics.py
\* ------------------------------------------------------------------------

\* len(TopK(R) & G) / |G|: the hits divided by the size of the GT set.
RecallOverGt(pred, gt, k) ==
    LET hits == Cardinality({j \in 1..Len(pred) : j <= k /\ pred[j] \in SeqToSet(gt)})
    IN  IF SeqToSet(gt) = {} THEN PyRaise("ZeroDivisionError")
        ELSE PyOk(FDiv(FInt(hits), FInt(Cardinality(SeqToSet(gt)))))

\* topk = pred[:k]; len([r for r in topk if r in G]) / k
recall_at_k(pred, gt, k) ==
    LET hits == Cardinality({j \in 1..Len(pred) : j <= k /\ pred[j] \in SeqToSet(gt)})
    IN  IF k = 0 THEN PyRaise("ZeroDivisionError")
        ELSE PyOk(FDiv(FInt(hits), FInt(k)))

\* dcg += (2**rel - 1) / math.log2(j + 1) for j in range(1, k + 1); pred[j - 1]
\* raises IndexError when pred has fewer than k items.
dcg_at_k(pred, gt, k) ==
    IF Len(pred) < k THEN PyRaise("IndexError")
    ELSE PyOk(DcgLoop([j \in 1..k |-> IF pred[j] \in SeqToSet(gt) THEN 1 ELSE 0], 1, k + 1, F_0_0))

\* ndcg_at_k with m = min(k, len(gt)): duplicates of the GT counted.
NdcgOverGtLen(pred, gt, k) ==
    LET m == IF k < Len(gt) THEN k ELSE Len(gt)
        Normalized(dcg) ==
            IF Raised(dcg) THEN dcg
            ELSE IF m = 0 THEN PyOk(F_0_0)
            ELSE PyOk(FDiv(dcg.val, DcgLoop([j \in 1..m |-> 1], 1, m + 1, F_0_0)))
    IN  Normalized(dcg_at_k(pred, gt, k))

\* dcg / idcg with idcg += 1.0 / math.log2(j + 1) for j in range(1, m + 1)
ndcg_at_k(pred, gt, k) ==
    LET m == IF k < Cardinality(SeqToSet(gt)) THEN k ELSE Cardinality(SeqToSet(gt))
        Normalized(dcg) ==
            IF Raised(dcg) THEN dcg
            ELSE IF m = 0 THEN PyOk(F_0_0)
            ELSE PyOk(FDiv(dcg.val, DcgLoop([j \in 1..m |-> 1], 1, m + 1, F_0_0)))
    IN  Normalized(dcg_at_k(pred, gt, k))

\* average_precision dividing by len(gt) instead of len(set(gt)).
AveragePrecisionOverLen(pred, gt) ==
    LET G == SeqToSet(gt)
        RECURSIVE Loop(_, _, _)
        Loop(j, hits, s) ==
            IF j > Len(pred) THEN s
            ELSE IF pred[j] \in G THEN Loop(j + 1, hits + 1, FAdd(s, FDiv(FInt(hits + 1), FInt(j))))
            ELSE Loop(j + 1, hits, s)
    IN  IF G = {} THEN PyOk(F_0_0)
        ELSE PyOk(FDiv(Loop(1, 0, F_0_0), FInt(Len(gt))))

\* The loop of lines 63-67 (hits, s over the whole of pred), then s / k.
average_precision(pred, gt) ==
    LET G == SeqToSet(gt)
        RECURSIVE Loop(_, _, _)
        Loop(j, hits, s) ==
            IF j > Len(pred) THEN s
            ELSE IF pred[j] \in G THEN Loop(j + 1, hits + 1, FAdd(s, FDiv(FInt(hits + 1), FInt(j))))
            ELSE Loop(j + 1, hits, s)
    IN  IF G = {} THEN PyOk(F_0_0)
        ELSE PyOk(FDiv(Loop(1, 0, F_0_0), FInt(Cardinality(G))))

\* sum(average_precision(p, g) for p, g in zip(preds, gts)) / len(preds)
mean_average_precision(preds, gts) ==
    LET n == IF Len(preds) < Len(gts) THEN Len(preds) ELSE Len(gts)
        RECURSIVE Sum(_, _)
        Sum(i, acc) ==
            IF i > n THEN acc
            ELSE Sum(i + 1, FAdd(acc, average_precision(preds[i], gts[i]).val))
    IN  IF Len(preds) = 0 THEN PyRaise("ZeroDivisionError")
        ELSE PyOk(FDiv(Sum(1, F_0_0), FInt(Len(preds))))

\* ------------------------------------------------------------------------
\* metrics/eval_grpo2_synth_pred_mix.py
\* ------------------------------------------------------------------------

\* _bucket counting each distinct predicted ID once.
BucketDistinctHits(gt, pred) ==
    LET c == Cardinality(SeqToSet(pred) \cap SeqToSet(gt))
        p == Cardinality({i \in 1..Len(pred) : i <= 3 /\ i <= Len(gt) /\ pred[i] = gt[i]})
    IN  CASE c = 0 -> "wrong0"
          [] c = 1 -> IF p = 1 THEN "one_correct_order" ELSE "one_not_order"
          [] c = 2 -> IF p = 2 THEN "two_correct_order" ELSE "two_not_order"
          [] c = 3 -> IF p = 3 THEN "three_correct_order" ELSE "three_not_order"
          [] OTHER -> "invalid"

\* c = sum(1 for x in pred if x in gt_pos);
\* p = sum(1 for i, x in enumerate(pred) if i < 3 and i < len(gt) and x == gt[i])
_bucket(gt, pred) ==
    LET c == Cardinality({i \in 1..Len(pred) : pred[i] \in SeqToSet(gt)})
        p == Cardinality({i \in 1..Len(pred) : i <= 3 /\ i <= Len(gt) /\ pred[i] = gt[i]})
    IN  CASE c = 0 -> "wrong0"
          [] c = 1 -> IF p = 1 THEN "one_correct_order" ELSE "one_not_order"
          [] c = 2 -> IF p = 2 THEN "two_correct_order" ELSE "two_not_order"
          [] c = 3 -> IF p = 3 THEN "three_correct_order" ELSE "three_not_order"
          [] OTHER -> "invalid"

\* ------------------------------------------------------------------------
\* The reward engine as a state machine: a batch (completions, assistant) of
\* equal length is handed to one function of the modules; the call sets fn,
\* its return value or exception (ret) and the locals it computed.
\* ------------------------------------------------------------------------

\* The largest batch handed to a reward function.
MaxBatch == 2

\* A text of one digit run longer than int() converts.
LongDigits == [i \in 1..(INT_MAX_STR_DIGITS + 1) |-> "9"]

\* The (completion, GT) pairs batches are cut from: consecutive pairs form a batch.
Corpus == <<
    [completion |-> <<"[", "5", ",", " ", "9", ",", " ", "2", "]">>,
     gt |-> <<"[", "5", ",", " ", "9", ",", " ", "2", "]">>],
    [completion |-> <<"[", "5", ",", " ", "2", ",", " ", "9", "]">>,
     gt |-> <<"[", "5", ",", " ", "9", ",", " ", "2", "]">>],
    [completion |-> <<"[", "9", ",", " ", "5", ",", " ", "2", "]">>,
     gt |-> <<"[", "5", ",", " ", "9", ",", " ", "2", "]">>],
    [completion |-> <<"[", "9", ",", " ", "2", ",", " ", "5", "]">>,
     gt |-> <<"[", "5", ",", " ", "9", ",", " ", "2", "]">>],
    [completion |-> <<"[", "2", ",", " ", "5", ",", " ", "9", "]">>,
     gt |-> <<"[", "5", ",", " ", "9", ",", " ", "2", "]">>],
    [completion |-> <<"[", "2", ",", " ", "9", ",", " ", "5", "]">>,
     gt |-> <<"[", "5", ",", " ", "9", ",", " ", "2", "]">>],
    [completion |-> <<"[", "1", ",", " ", "3", ",", " ", "4", "]">>,
     gt |-> <<"[", "5", ",", " ", "9", ",", " ", "2", "]">>],
    [completion |-> <<"[", "5", ",", " ", "1", ",", " ", "3", "]">>,
     gt |-> <<"[", "5", ",", " ", "9", ",", " ", "2", "]">>],
    [completion |-> <<"[", "5", ",", " ", "9", ",", " ", "7", "]">>,
     gt |-> <<"[", "5", ",", " ", "9", ",", " ", "2", "]">>],
    [completion |-> <<"[", "5", ",", " ", "9", ",", " ", "7", "]">>,
     gt |-> <<"[", "5", ",", " ", "9", ",", " ", "2", ",", " ", "7", "]">>],
    [completion |-> <<"[", "5", ",", " ", "9", ",", " ", "2", "]">>,
     gt |-> <<"[", "5", ",", " ", "9", ",", " ", "2", ",", " ", "7", "]">>],
    [completion |-> <<"[", "5", ",", " ", "9", ",", " ", "2", "]">>,
     gt |-> <<"[", "5", ",", " ", "5", ",", " ", "2", "]">>],
    [completion |-> <<"[", "2", ",", " ", "5", ",", " ", "9", "]">>,
     gt |-> <<"[", "5", ",", " ", "5", ",", " ", "2", "]">>],
    [completion |-> <<"[", "2", ",", " ", "5", ",", " ", "9", "]">>,
     gt |-> <<"[", "5", ",", " ", "5", ",", " ", "2", ",", " ", "9", "]">>],
    [completion |-> <<"[", "5", ",", " ", "9", ",", " ", "2", "]">>,
     gt |-> <<"[", "5", "]">>],
    [completion |-> <<"[", "5", ",", " ", "9", ",", " ", "2", "]">>,
     gt |-> <<"[", "9", ",", " ", "5", "]">>],
    [completion |-> <<"[", "5", ",", " ", "9", ",", " ", "2", "]">>,
     gt |-> <<>>],
    [completion |-> <<"[", "5", ",", " ", "9", ",", " ", "2", "]">>,
     gt |-> <<"n", "o", "n", "e">>],
    [completion |-> <<"[", "5", ",", " ", "5", ",", " ", "2", "]">>,
     gt |-> <<"n", "o", "n", "e">>],
    [completion |-> <<"[", "5", ",", " ", "9", ",", " ", "2", "]">>,
     gt |-> <<"[", "0", ",", " ", "1", "7", ",", " ", "5", "]">>],
    [completion |-> <<"[", "1", ",", " ", "2", ",", " ", "3", "]">>,
     gt |-> <<"[", "1", ",", " ", "2", ",", " ", "3", "]">>],
    [completion |-> <<"[", "1", ",", "2", ",", "3", "]">>,
     gt |-> <<"[", "1", ",", " ", "2", ",", " ", "3", "]">>],
    [completion |-> <<" ", "[", "1", ",", " ", "2", ",", " ", "3", "]", "\n">>,
     gt |-> <<"[", "1", ",", " ", "2", ",", " ", "3", "]">>],
    [completion |-> <<"[", "1", ",", " ", "1", ",", " ", "2", "]">>,
     gt |-> <<"[", "1", ",", " ", "2", ",", " ", "3", "]">>],
    [completion |-> <<"[", "1", ",", " ", "2", ",", " ", "1", "7", "]">>,
     gt |-> <<"[", "1", ",", " ", "2", ",", " ", "3", "]">>],
    [completion |-> <<"[", "1", "6", ",", " ", "1", ",", " ", "2", "]">>,
     gt |-> <<"[", "1", ",", " ", "2", ",", " ", "3", "]">>],
    [completion |-> <<"[", "0", ",", " ", "1", ",", " ", "2", "]">>,
     gt |-> <<"[", "1", ",", " ", "2", ",", " ", "3", "]">>],
    [completion |-> <<"r", "e", "g", "i", "o", "n", "s", ":", " ", "4", " ", "9", " ", "2", " ", "p", "l", "e", "a", "s", "e">>,
     gt |-> <<"[", "4", ",", " ", "9", ",", " ", "2", "]">>],
    [completion |-> <<"C", "1", " ", "C", "2", " ", "C", "3">>,
     gt |-> <<"[", "1", ",", " ", "2", ",", " ", "3", "]">>],
    [completion |-> <<"-", "1", ",", " ", "-", "2", ",", " ", "-", "3">>,
     gt |-> <<"[", "1", ",", " ", "2", ",", " ", "3", "]">>],
    [completion |-> <<"1", " ", "2", " ", "U+0663">>,
     gt |-> <<"[", "1", ",", " ", "2", ",", " ", "3", "]">>],
    [completion |-> <<"1", " ", "2">>,
     gt |-> <<"[", "1", ",", " ", "2", ",", " ", "3", "]">>],
    [completion |-> <<"1", " ", "2", " ", "3", " ", "4">>,
     gt |-> <<"[", "1", ",", " ", "2", ",", " ", "3", "]">>],
    [completion |-> <<>>,
     gt |-> <<"[", "1", ",", " ", "2", ",", " ", "3", "]">>],
    [completion |-> <<"U+00E9">>,
     gt |-> <<"[", "1", ",", " ", "2", ",", " ", "3", "]">>],
    [completion |-> <<"0", "0", "7", " ", "0", "8", " ", "9">>,
     gt |-> <<"[", "7", ",", " ", "8", ",", " ", "9", "]">>],
    [completion |-> LongDigits,
     gt |-> <<"[", "1", ",", " ", "2", ",", " ", "3", "]">>],
    [completion |-> <<"[", "1", ",", " ", "2", ",", " ", "3", "]">>,
     gt |-> LongDigits],
    [completion |-> <<"1", " ", "2">>,
     gt |-> LongDigits],
    [completion |-> <<"(", "1", ",", " ", "s", "p", "e", "e", "c", "h", ",", " ", "l", "o", "w", ",", " ", "v", "o", "w", "e", "l", ",", " ", "l", "o", "w", " ", "v", "o", "w", "e", "l", " ", "s", "p", "e", "e", "c", "h", ")", "\n", "(", "2", ",", " ", "N", "o", "n", " ", "S", "p", "e", "e", "c", "h", ",", " ", "m", "i", "d", "d", "l", "e", ",", " ", "c", "o", "n", "s", "o", "n", "a", "n", "t", ",", " ", "a", " ", "p", "a", "u", "s", "e", " ", "t", "h", "e", "n", " ", "a", " ", "s", "t", "o", "p", ")", "\n", "(", "3", ",", " ", "s", "p", "e", "e", "c", "h", ",", " ", "h", "i", "g", "h", ",", " ", "v", "o", "i", "c", "e", "l", "e", "s", "s", ",", " ", "h", "i", "g", "h", " ", "b", "u", "r", "s", "t", ")">>,
     gt |-> <<"(", "1", ",", " ", "s", "p", "e", "e", "c", "h", ",", " ", "l", "o", "w", ",", " ", "v", "o", "w", "e", "l", ",", " ", "l", "o", "w", " ", "v", "o", "w", "e", "l", " ", "s", "p", "e", "e", "c", "h", ")", "\n", "(", "2", ",", " ", "N", "o", "n", " ", "S", "p", "e", "e", "c", "h", ",", " ", "m", "i", "d", "d", "l", "e", ",", " ", "c", "o", "n", "s", "o", "n", "a", "n", "t", ",", " ", "a", " ", "p", "a", "u", "s", "e", " ", "t", "h", "e", "n", " ", "a", " ", "s", "t", "o", "p", ")", "\n", "(", "3", ",", " ", "s", "p", "e", "e", "c", "h", ",", " ", "h", "i", "g", "h", ",", " ", "v", "o", "i", "c", "e", "l", "e", "s", "s", ",", " ", "h", "i", "g", "h", " ", "b", "u", "r", "s", "t", ")">>],
    [completion |-> <<"(", "3", ",", " ", "s", "p", "e", "e", "c", "h", ",", " ", "h", "i", "g", "h", ",", " ", "v", "o", "i", "c", "e", "l", "e", "s", "s", ",", " ", "h", "i", "g", "h", " ", "b", "u", "r", "s", "t", ")", "\n", "(", "1", ",", " ", "s", "p", "e", "e", "c", "h", ",", " ", "l", "o", "w", ",", " ", "v", "o", "w", "e", "l", ",", " ", "l", "o", "w", " ", "v", "o", "w", "e", "l", " ", "s", "p", "e", "e", "c", "h", ")", "\n", "(", "2", ",", " ", "N", "o", "n", " ", "S", "p", "e", "e", "c", "h", ",", " ", "m", "i", "d", "d", "l", "e", ",", " ", "c", "o", "n", "s", "o", "n", "a", "n", "t", ",", " ", "a", " ", "p", "a", "u", "s", "e", " ", "t", "h", "e", "n", " ", "a", " ", "s", "t", "o", "p", ")">>,
     gt |-> <<"(", "1", ",", " ", "s", "p", "e", "e", "c", "h", ",", " ", "l", "o", "w", ",", " ", "v", "o", "w", "e", "l", ",", " ", "l", "o", "w", " ", "v", "o", "w", "e", "l", " ", "s", "p", "e", "e", "c", "h", ")", "\n", "(", "2", ",", " ", "N", "o", "n", " ", "S", "p", "e", "e", "c", "h", ",", " ", "m", "i", "d", "d", "l", "e", ",", " ", "c", "o", "n", "s", "o", "n", "a", "n", "t", ",", " ", "a", " ", "p", "a", "u", "s", "e", " ", "t", "h", "e", "n", " ", "a", " ", "s", "t", "o", "p", ")", "\n", "(", "3", ",", " ", "s", "p", "e", "e", "c", "h", ",", " ", "h", "i", "g", "h", ",", " ", "v", "o", "i", "c", "e", "l", "e", "s", "s", ",", " ", "h", "i", "g", "h", " ", "b", "u", "r", "s", "t", ")">>],
    [completion |-> <<"(", "1", ",", " ", "n", "o", "n", "-", "s", "p", "e", "e", "c", "h", ",", " ", "l", "o", "w", ",", " ", "c", "o", "n", "s", "o", "n", "a", "n", "t", ",", " ", "s", "i", "l", "e", "n", "c", "e", ")", "\n", "(", "2", ",", " ", "n", "o", "n", "s", "p", "e", "e", "c", "h", ",", " ", "m", "i", "d", ",", " ", "v", "o", "w", "e", "l", ",", " ", "x", ")", "\n", "(", "3", ",", " ", "s", "p", "e", "e", "c", "h", ",", " ", "h", "i", "g", "h", ",", " ", "u", "n", "v", "o", "i", "c", "e", "d", ",", " ", "u", "n", "v", "o", "i", "c", "e", "d", ")">>,
     gt |-> <<"(", "1", ",", " ", "s", "p", "e", "e", "c", "h", ",", " ", "l", "o", "w", ",", " ", "v", "o", "w", "e", "l", ",", " ", "l", "o", "w", " ", "v", "o", "w", "e", "l", " ", "s", "p", "e", "e", "c", "h", ")", "\n", "(", "2", ",", " ", "N", "o", "n", " ", "S", "p", "e", "e", "c", "h", ",", " ", "m", "i", "d", "d", "l", "e", ",", " ", "c", "o", "n", "s", "o", "n", "a", "n", "t", ",", " ", "a", " ", "p", "a", "u", "s", "e", " ", "t", "h", "e", "n", " ", "a", " ", "s", "t", "o", "p", ")", "\n", "(", "3", ",", " ", "s", "p", "e", "e", "c", "h", ",", " ", "h", "i", "g", "h", ",", " ", "v", "o", "i", "c", "e", "l", "e", "s", "s", ",", " ", "h", "i", "g", "h", " ", "b", "u", "r", "s", "t", ")">>],
    [completion |-> <<"(", "2", ",", " ", "n", "o", "n", "s", "p", "e", "e", "c", "h", ",", " ", "m", "i", "d", ",", " ", "v", "o", "w", "e", "l", ",", " ", "x", ")", "\n", "(", "1", ",", " ", "n", "o", "n", "-", "s", "p", "e", "e", "c", "h", ",", " ", "l", "o", "w", ",", " ", "c", "o", "n", "s", "o", "n", "a", "n", "t", ",", " ", "s", "i", "l", "e", "n", "c", "e", ")", "\n", "(", "3", ",", " ", "s", "p", "e", "e", "c", "h", ",", " ", "h", "i", "g", "h", ",", " ", "u", "n", "v", "o", "i", "c", "e", "d", ",", " ", "u", "n", "v", "o", "i", "c", "e", "d", ")">>,
     gt |-> <<"(", "1", ",", " ", "s", "p", "e", "e", "c", "h", ",", " ", "l", "o", "w", ",", " ", "v", "o", "w", "e", "l", ",", " ", "l", "o", "w", " ", "v", "o", "w", "e", "l", " ", "s", "p", "e", "e", "c", "h", ")", "\n", "(", "2", ",", " ", "N", "o", "n", " ", "S", "p", "e", "e", "c", "h", ",", " ", "m", "i", "d", "d", "l", "e", ",", " ", "c", "o", "n", "s", "o", "n", "a", "n", "t", ",", " ", "a", " ", "p", "a", "u", "s", "e", " ", "t", "h", "e", "n", " ", "a", " ", "s", "t", "o", "p", ")", "\n", "(", "3", ",", " ", "s", "p", "e", "e", "c", "h", ",", " ", "h", "i", "g", "h", ",", " ", "v", "o", "i", "c", "e", "l", "e", "s", "s", ",", " ", "h", "i", "g", "h", " ", "b", "u", "r", "s", "t", ")">>],
    [completion |-> <<"(", "1", ",", " ", "s", "p", "e", "e", "c", "h", ",", " ", "l", "o", "w", ",", " ", "v", "o", "w", "e", "l", ",", " ", "l", "o", "w", " ", "v", "o", "w", "e", "l", " ", "s", "p", "e", "e", "c", "h", ")", "\n", "(", "2", ",", " ", "n", "o", "n", "s", "p", "e", "e", "c", "h", ",", " ", "m", "i", "d", ",", " ", "v", "o", "w", "e", "l", ",", " ", "x", ")", "\n", "(", "4", ",", " ", "s", "p", "e", "e", "c", "h", ",", " ", "l", "o", "w", ",", " ", "v", "o", "w", "e", "l", ",", " ", "x", ")">>,
     gt |-> <<"(", "1", ",", " ", "s", "p", "e", "e", "c", "h", ",", " ", "l", "o", "w", ",", " ", "v", "o", "w", "e", "l", ",", " ", "l", "o", "w", " ", "v", "o", "w", "e", "l", " ", "s", "p", "e", "e", "c", "h", ")", "\n", "(", "2", ",", " ", "N", "o", "n", " ", "S", "p", "e", "e", "c", "h", ",", " ", "m", "i", "d", "d", "l", "e", ",", " ", "c", "o", "n", "s", "o", "n", "a", "n", "t", ",", " ", "a", " ", "p", "a", "u", "s", "e", " ", "t", "h", "e", "n", " ", "a", " ", "s", "t", "o", "p", ")", "\n", "(", "3", ",", " ", "s", "p", "e", "e", "c", "h", ",", " ", "h", "i", "g", "h", ",", " ", "v", "o", "i", "c", "e", "l", "e", "s", "s", ",", " ", "h", "i", "g", "h", " ", "b", "u", "r", "s", "t", ")">>],
    [completion |-> <<"(", "4", ",", " ", "s", "p", "e", "e", "c", "h", ",", " ", "l", "o", "w", ",", " ", "v", "o", "w", "e", "l", ",", " ", "x", ")", "\n", "(", "2", ",", " ", "n", "o", "n", "s", "p", "e", "e", "c", "h", ",", " ", "m", "i", "d", ",", " ", "v", "o", "w", "e", "l", ",", " ", "x", ")", "\n", "(", "1", ",", " ", "s", "p", "e", "e", "c", "h", ",", " ", "l", "o", "w", ",", " ", "v", "o", "w", "e", "l", ",", " ", "l", "o", "w", " ", "v", "o", "w", "e", "l", " ", "s", "p", "e", "e", "c", "h", ")">>,
     gt |-> <<"(", "1", ",", " ", "s", "p", "e", "e", "c", "h", ",", " ", "l", "o", "w", ",", " ", "v", "o", "w", "e", "l", ",", " ", "l", "o", "w", " ", "v", "o", "w", "e", "l", " ", "s", "p", "e", "e", "c", "h", ")", "\n", "(", "2", ",", " ", "N", "o", "n", " ", "S", "p", "e", "e", "c", "h", ",", " ", "m", "i", "d", "d", "l", "e", ",", " ", "c", "o", "n", "s", "o", "n", "a", "n", "t", ",", " ", "a", " ", "p", "a", "u", "s", "e", " ", "t", "h", "e", "n", " ", "a", " ", "s", "t", "o", "p", ")", "\n", "(", "3", ",", " ", "s", "p", "e", "e", "c", "h", ",", " ", "h", "i", "g", "h", ",", " ", "v", "o", "i", "c", "e", "l", "e", "s", "s", ",", " ", "h", "i", "g", "h", " ", "b", "u", "r", "s", "t", ")">>],
    [completion |-> <<"(", "4", ",", " ", "s", "p", "e", "e", "c", "h", ",", " ", "l", "o", "w", ",", " ", "v", "o", "w", "e", "l", ",", " ", "x", ")", "\n", "(", "5", ",", " ", "s", "p", "e", "e", "c", "h", ",", " ", "l", "o", "w", ",", " ", "v", "o", "w", "e", "l", ",", " ", "x", ")", "\n", "(", "6", ",", " ", "s", "p", "e", "e", "c", "h", ",", " ", "l", "o", "w", ",", " ", "v", "o", "w", "e", "l", ",", " ", "l", "o", "w", ")">>,
     gt |-> <<"(", "1", ",", " ", "s", "p", "e", "e", "c", "h", ",", " ", "l", "o", "w", ",", " ", "v", "o", "w", "e", "l", ",", " ", "l", "o", "w", " ", "v", "o", "w", "e", "l", " ", "s", "p", "e", "e", "c", "h", ")", "\n", "(", "2", ",", " ", "N", "o", "n", " ", "S", "p", "e", "e", "c", "h", ",", " ", "m", "i", "d", "d", "l", "e", ",", " ", "c", "o", "n", "s", "o", "n", "a", "n", "t", ",", " ", "a", " ", "p", "a", "u", "s", "e", " ", "t", "h", "e", "n", " ", "a", " ", "s", "t", "o", "p", ")", "\n", "(", "3", ",", " ", "s", "p", "e", "e", "c", "h", ",", " ", "h", "i", "g", "h", ",", " ", "v", "o", "i", "c", "e", "l", "e", "s", "s", ",", " ", "h", "i", "g", "h", " ", "b", "u", "r", "s", "t", ")">>],
    [completion |-> <<"(", "4", ",", " ", "s", "p", "e", "e", "c", "h", ",", " ", "l", "o", "w", ",", " ", "v", "o", "w", "e", "l", ",", " ", "x", ")", "\n", "(", "6", ",", " ", "s", "p", "e", "e", "c", "h", ",", " ", "l", "o", "w", ",", " ", "v", "o", "w", "e", "l", ",", " ", "l", "o", "w", ")", "\n", "(", "5", ",", " ", "s", "p", "e", "e", "c", "h", ",", " ", "l", "o", "w", ",", " ", "v", "o", "w", "e", "l", ",", " ", "x", ")">>,
     gt |-> <<"(", "1", ",", " ", "s", "p", "e", "e", "c", "h", ",", " ", "l", "o", "w", ",", " ", "v", "o", "w", "e", "l", ",", " ", "l", "o", "w", " ", "v", "o", "w", "e", "l", " ", "s", "p", "e", "e", "c", "h", ")", "\n", "(", "2", ",", " ", "N", "o", "n", " ", "S", "p", "e", "e", "c", "h", ",", " ", "m", "i", "d", "d", "l", "e", ",", " ", "c", "o", "n", "s", "o", "n", "a", "n", "t", ",", " ", "a", " ", "p", "a", "u", "s", "e", " ", "t", "h", "e", "n", " ", "a", " ", "s", "t", "o", "p", ")", "\n", "(", "3", ",", " ", "s", "p", "e", "e", "c", "h", ",", " ", "h", "i", "g", "h", ",", " ", "v", "o", "i", "c", "e", "l", "e", "s", "s", ",", " ", "h", "i", "g", "h", " ", "b", "u", "r", "s", "t", ")">>],
    [completion |-> <<"(", "6", ",", " ", "s", "p", "e", "e", "c", "h", ",", " ", "l", "o", "w", ",", " ", "v", "o", "w", "e", "l", ",", " ", "l", "o", "w", ")", "\n", "(", "4", ",", " ", "s", "p", "e", "e", "c", "h", ",", " ", "l", "o", "w", ",", " ", "v", "o", "w", "e", "l", ",", " ", "x", ")", "\n", "(", "5", ",", " ", "s", "p", "e", "e", "c", "h", ",", " ", "l", "o", "w", ",", " ", "v", "o", "w", "e", "l", ",", " ", "x", ")">>,
     gt |-> <<"(", "1", ",", " ", "s", "p", "e", "e", "c", "h", ",", " ", "l", "o", "w", ",", " ", "v", "o", "w", "e", "l", ",", " ", "l", "o", "w", " ", "v", "o", "w", "e", "l", " ", "s", "p", "e", "e", "c", "h", ")", "\n", "(", "2", ",", " ", "N", "o", "n", " ", "S", "p", "e", "e", "c", "h", ",", " ", "m", "i", "d", "d", "l", "e", ",", " ", "c", "o", "n", "s", "o", "n", "a", "n", "t", ",", " ", "a", " ", "p", "a", "u", "s", "e", " ", "t", "h", "e", "n", " ", "a", " ", "s", "t", "o", "p", ")", "\n", "(", "3", ",", " ", "s", "p", "e", "e", "c", "h", ",", " ", "h", "i", "g", "h", ",", " ", "v", "o", "i", "c", "e", "l", "e", "s", "s", ",", " ", "h", "i", "g", "h", " ", "b", "u", "r", "s", "t", ")">>],
    [completion |-> <<"(", "4", ",", " ", "s", "p", "e", "e", "c", "h", ",", " ", "l", "o", "w", ",", " ", "v", "o", "w", "e", "l", ",", " ", "x", ")", "\n", "(", "5", ",", " ", "s", "p", "e", "e", "c", "h", ",", " ", "l", "o", "w", ",", " ", "v", "o", "w", "e", "l", ",", " ", "x", ")", "\n", "(", "7", ",", " ", "s", "p", "e", "e", "c", "h", ",", " ", "l", "o", "w", ",", " ", "v", "o", "w", "e", "l", ",", " ", "x", ")">>,
     gt |-> <<"(", "1", ",", " ", "s", "p", "e", "e", "c", "h", ",", " ", "l", "o", "w", ",", " ", "v", "o", "w", "e", "l", ",", " ", "l", "o", "w", " ", "v", "o", "w", "e", "l", " ", "s", "p", "e", "e", "c", "h", ")", "\n", "(", "2", ",", " ", "N", "o", "n", " ", "S", "p", "e", "e", "c", "h", ",", " ", "m", "i", "d", "d", "l", "e", ",", " ", "c", "o", "n", "s", "o", "n", "a", "n", "t", ",", " ", "a", " ", "p", "a", "u", "s", "e", " ", "t", "h", "e", "n", " ", "a", " ", "s", "t", "o", "p", ")", "\n", "(", "3", ",", " ", "s", "p", "e", "e", "c", "h", ",", " ", "h", "i", "g", "h", ",", " ", "v", "o", "i", "c", "e", "l", "e", "s", "s", ",", " ", "h", "i", "g", "h", " ", "b", "u", "r", "s", "t", ")">>],
    [completion |-> <<"(", "4", ",", " ", "s", "p", "e", "e", "c", "h", ",", " ", "l", "o", "w", ",", " ", "v", "o", "w", "e", "l", ",", " ", "x", ")", "\n", "(", "5", ",", " ", "s", "p", "e", "e", "c", "h", ",", " ", "l", "o", "w", ",", " ", "v", "o", "w", "e", "l", ",", " ", "x", ")", "\n", "(", "7", ",", " ", "s", "p", "e", "e", "c", "h", ",", " ", "l", "o", "w", ",", " ", "v", "o", "w", "e", "l", ",", " ", "x", ")">>,
     gt |-> <<"(", "1", ",", " ", "s", "p", "e", "e", "c", "h", ",", " ", "l", "o", "w", ",", " ", "v", "o", "w", "e", "l", ",", " ", "l", "o", "w", " ", "v", "o", "w", "e", "l", " ", "s", "p", "e", "e", "c", "h", ")", "\n", "(", "2", ",", " ", "N", "o", "n", " ", "S", "p", "e", "e", "c", "h", ",", " ", "m", "i", "d", "d", "l", "e", ",", " ", "c", "o", "n", "s", "o", "n", "a", "n", "t", ",", " ", "a", " ", "p", "a", "u", "s", "e", " ", "t", "h", "e", "n", " ", "a", " ", "s", "t", "o", "p", ")">>],
    [completion |-> <<"(", "1", ",", " ", "s", "p", "e", "e", "c", "h", ",", " ", "l", "o", "w", ",", " ", "v", "o", "w", "e", "l", ",", " ", "l", "o", "w", " ", "v", "o", "w", "e", "l", " ", "s", "p", "e", "e", "c", "h", ")", "\n", "(", "2", ",", " ", "n", "o", "n", "-", "s", "p", "e", "e", "c", "h", ",", " ", "m", "i", "d", ",", " ", "u", "n", "v", "o", "i", "c", "e", "d", ",", " ", "u", "n", "v", "o", "i", "c", "e", "d", " ", "m", "i", "d", ")", "\n", "(", "3", ",", " ", "s", "p", "e", "e", "c", "h", ",", " ", "h", "i", "g", "h", ",", " ", "c", "o", "n", "s", "o", "n", "a", "n", "t", ",", " ", "a", " ", "h", "i", "g", "h", " ", "s", "p", "o", "k", "e", "n", " ", "s", "t", "o", "p", ")">>,
     gt |-> <<"(", "1", ",", " ", "s", "p", "e", "e", "c", "h", ",", " ", "l", "o", "w", ",", " ", "v", "o", "w", "e", "l", ",", " ", "l", "o", "w", " ", "v", "o", "w", "e", "l", " ", "s", "p", "e", "e", "c", "h", ")", "\n", "(", "2", ",", " ", "n", "o", "n", "-", "s", "p", "e", "e", "c", "h", ",", " ", "m", "i", "d", ",", " ", "u", "n", "v", "o", "i", "c", "e", "d", ",", " ", "u", "n", "v", "o", "i", "c", "e", "d", " ", "m", "i", "d", ")", "\n", "(", "3", ",", " ", "s", "p", "e", "e", "c", "h", ",", " ", "h", "i", "g", "h", ",", " ", "c", "o", "n", "s", "o", "n", "a", "n", "t", ",", " ", "a", " ", "h", "i", "g", "h", " ", "s", "p", "o", "k", "e", "n", " ", "s", "t", "o", "p", ")">>],
    [completion |-> <<"(", "1", ",", " ", "s", "p", "e", "e", "c", "h", ",", " ", "l", "o", "w", ",", " ", "v", "o", "w", "e", "l", ",", " ", "l", "o", "w", " ", "v", "o", "w", "e", "l", " ", "s", "p", "e", "e", "c", "h", ")", "\n", "(", "2", ",", " ", "n", "o", "n", "-", "s", "p", "e", "e", "c", "h", ",", " ", "m", "i", "d", ",", " ", "u", "n", "v", "o", "i", "c", "e", "d", ",", " ", "u", "n", "v", "o", "i", "c", "e", "d", " ", "m", "i", "d", ")", "\n", "(", "3", ",", " ", "s", "p", "e", "e", "c", "h", ",", " ", "h", "i", "g", "h", ",", " ", "c", "o", "n", "s", "o", "n", "a", "n", "t", ",", " ", "a", " ", "h", "i", "g", "h", " ", "s", "p", "o", "k", "e", "n", " ", "s", "t", "o", "p", ")">>,
     gt |-> <<"C", "n", ":", " ", "1", "\n", "T", ":", " ", "s", "p", "e", "e", "c", "h", "\n", "F", ":", " ", "l", "o", "w", "\n", "P", ":", " ", "v", "o", "w", "e", "l", "\n", "E", "n", ":", " ", "l", "o", "w", " ", "v", "o", "w", "e", "l", " ", "s", "p", "e", "e", "c", "h", "\n", "C", "n", ":", " ", "2", "\n", "T", ":", " ", "n", "o", "n", "-", "s", "p", "e", "e", "c", "h", "\n", "F", ":", " ", "m", "i", "d", "\n", "P", ":", " ", "u", "n", "v", "o", "i", "c", "e", "d", "\n", "E", "n", ":", " ", "u", "n", "v", "o", "i", "c", "e", "d", " ", "m", "i", "d", "\n", "C", "n", ":", " ", "3", "\n", "T", ":", " ", "s", "p", "e", "e", "c", "h", "\n", "F", ":", " ", "h", "i", "g", "h", "\n", "P", ":", " ", "c", "o", "n", "s", "o", "n", "a", "n", "t", "\n", "E", "n", ":", " ", "a", " ", "h", "i", "g", "h", " ", "s", "p", "o", "k", "e", "n", " ", "s", "t", "o", "p">>],
    [completion |-> <<"(", "1", ",", " ", "s", "p", "e", "e", "c", "h", ",", " ", "l", "o", "w", ",", " ", "v", "o", "w", "e", "l", ",", " ", "l", "o", "w", " ", "v", "o", "w", "e", "l", " ", "s", "p", "e", "e", "c", "h", ")", "\n", "(", "2", ",", " ", "N", "o", "n", " ", "S", "p", "e", "e", "c", "h", ",", " ", "m", "i", "d", "d", "l", "e", ",", " ", "c", "o", "n", "s", "o", "n", "a", "n", "t", ",", " ", "a", " ", "p", "a", "u", "s", "e", " ", "t", "h", "e", "n", " ", "a", " ", "s", "t", "o", "p", ")", "\n", "(", "3", ",", " ", "s", "p", "e", "e", "c", "h", ",", " ", "h", "i", "g", "h", ",", " ", "v", "o", "i", "c", "e", "l", "e", "s", "s", ",", " ", "h", "i", "g", "h", " ", "b", "u", "r", "s", "t", ")">>,
     gt |-> <<"(", "3", ",", " ", "s", "p", "e", "e", "c", "h", ",", " ", "h", "i", "g", "h", ",", " ", "v", "o", "i", "c", "e", "l", "e", "s", "s", ",", " ", "h", "i", "g", "h", " ", "b", "u", "r", "s", "t", ")", "\n", "(", "2", ",", " ", "N", "o", "n", " ", "S", "p", "e", "e", "c", "h", ",", " ", "m", "i", "d", "d", "l", "e", ",", " ", "c", "o", "n", "s", "o", "n", "a", "n", "t", ",", " ", "a", " ", "p", "a", "u", "s", "e", " ", "t", "h", "e", "n", " ", "a", " ", "s", "t", "o", "p", ")", "\n", "(", "1", ",", " ", "s", "p", "e", "e", "c", "h", ",", " ", "l", "o", "w", ",", " ", "v", "o", "w", "e", "l", ",", " ", "l", "o", "w", " ", "v", "o", "w", "e", "l", " ", "s", "p", "e", "e", "c", "h", ")">>],
    [completion |-> <<"(", "1", ",", " ", "s", "p", "e", "e", "c", "h", ",", " ", "l", "o", "w", ",", " ", "v", "o", "w", "e", "l", ",", " ", "l", "o", "w", " ", "v", "o", "w", "e", "l", " ", "s", "p", "e", "e", "c", "h", ")", "(", "2", ",", " ", "N", "o", "n", " ", "S", "p", "e", "e", "c", "h", ",", " ", "m", "i", "d", "d", "l", "e", ",", " ", "c", "o", "n", "s", "o", "n", "a", "n", "t", ",", " ", "a", " ", "p", "a", "u", "s", "e", " ", "t", "h", "e", "n", " ", "a", " ", "s", "t", "o", "p", ")", "(", "3", ",", " ", "s", "p", "e", "e", "c", "h", ",", " ", "h", "i", "g", "h", ",", " ", "v", "o", "i", "c", "e", "l", "e", "s", "s", ",", " ", "h", "i", "g", "h", " ", "b", "u", "r", "s", "t", ")">>,
     gt |-> <<"(", "1", ",", " ", "s", "p", "e", "e", "c", "h", ",", " ", "l", "o", "w", ",", " ", "v", "o", "w", "e", "l", ",", " ", "l", "o", "w", " ", "v", "o", "w", "e", "l", " ", "s", "p", "e", "e", "c", "h", ")", "\n", "(", "2", ",", " ", "N", "o", "n", " ", "S", "p", "e", "e", "c", "h", ",", " ", "m", "i", "d", "d", "l", "e", ",", " ", "c", "o", "n", "s", "o", "n", "a", "n", "t", ",", " ", "a", " ", "p", "a", "u", "s", "e", " ", "t", "h", "e", "n", " ", "a", " ", "s", "t", "o", "p", ")", "\n", "(", "3", ",", " ", "s", "p", "e", "e", "c", "h", ",", " ", "h", "i", "g", "h", ",", " ", "v", "o", "i", "c", "e", "l", "e", "s", "s", ",", " ", "h", "i", "g", "h", " ", "b", "u", "r", "s", "t", ")">>],
    [completion |-> <<"A", "n", "s", "w", "e", "r", ":", " ", "(", "1", ",", " ", "s", "p", "e", "e", "c", "h", ",", " ", "l", "o", "w", ",", " ", "v", "o", "w", "e", "l", ",", " ", "l", "o", "w", " ", "v", "o", "w", "e", "l", " ", "s", "p", "e", "e", "c", "h", ")", " ", "a", "n", "d", " ", "(", "2", ",", " ", "N", "o", "n", " ", "S", "p", "e", "e", "c", "h", ",", " ", "m", "i", "d", "d", "l", "e", ",", " ", "c", "o", "n", "s", "o", "n", "a", "n", "t", ",", " ", "a", " ", "p", "a", "u", "s", "e", " ", "t", "h", "e", "n", " ", "a", " ", "s", "t", "o", "p", ")", ";", " ", "(", "3", ",", " ", "s", "p", "e", "e", "c", "h", ",", " ", "h", "i", "g", "h", ",", " ", "v", "o", "i", "c", "e", "l", "e", "s", "s", ",", " ", "h", "i", "g", "h", " ", "b", "u", "r", "s", "t", ")", ".">>,
     gt |-> <<"(", "1", ",", " ", "s", "p", "e", "e", "c", "h", ",", " ", "l", "o", "w", ",", " ", "v", "o", "w", "e", "l", ",", " ", "l", "o", "w", " ", "v", "o", "w", "e", "l", " ", "s", "p", "e", "e", "c", "h", ")", "\n", "(", "2", ",", " ", "N", "o", "n", " ", "S", "p", "e", "e", "c", "h", ",", " ", "m", "i", "d", "d", "l", "e", ",", " ", "c", "o", "n", "s", "o", "n", "a", "n", "t", ",", " ", "a", " ", "p", "a", "u", "s", "e", " ", "t", "h", "e", "n", " ", "a", " ", "s", "t", "o", "p", ")", "\n", "(", "3", ",", " ", "s", "p", "e", "e", "c", "h", ",", " ", "h", "i", "g", "h", ",", " ", "v", "o", "i", "c", "e", "l", "e", "s", "s", ",", " ", "h", "i", "g", "h", " ", "b", "u", "r", "s", "t", ")">>],
    [completion |-> <<"(", " ", "1", " ", ",", "\n", " ", "s", "p", "e", "e", "c", "h", " ", ",", " ", "L", "O", "W", " ", ",", " ", "V", "o", "w", "e", "l", " ", ",", " ", "h", "a", "s", " ", "(", "p", "a", "r", "e", "n", ")", " ", "i", "n", "s", "i", "d", "e", " ", ")", "(", "2", ",", " ", "n", "o", "n", "s", "p", "e", "e", "c", "h", ",", " ", "m", "i", "d", ",", " ", "v", "o", "w", "e", "l", ",", " ", "x", ")", "(", "3", ",", " ", "s", "p", "e", "e", "c", "h", ",", " ", "h", "i", "g", "h", ",", " ", "u", "n", "v", "o", "i", "c", "e", "d", ",", " ", "u", "n", "v", "o", "i", "c", "e", "d", ")">>,
     gt |-> <<"(", "1", ",", " ", "s", "p", "e", "e", "c", "h", ",", " ", "l", "o", "w", ",", " ", "v", "o", "w", "e", "l", ",", " ", "l", "o", "w", " ", "v", "o", "w", "e", "l", " ", "s", "p", "e", "e", "c", "h", ")", "\n", "(", "2", ",", " ", "N", "o", "n", " ", "S", "p", "e", "e", "c", "h", ",", " ", "m", "i", "d", "d", "l", "e", ",", " ", "c", "o", "n", "s", "o", "n", "a", "n", "t", ",", " ", "a", " ", "p", "a", "u", "s", "e", " ", "t", "h", "e", "n", " ", "a", " ", "s", "t", "o", "p", ")", "\n", "(", "3", ",", " ", "s", "p", "e", "e", "c", "h", ",", " ", "h", "i", "g", "h", ",", " ", "v", "o", "i", "c", "e", "l", "e", "s", "s", ",", " ", "h", "i", "g", "h", " ", "b", "u", "r", "s", "t", ")">>],
    [completion |-> <<"(", "0", "1", ",", " ", "s", "p", "e", "e", "c", "h", ",", " ", "l", "o", "w", ",", " ", "v", "o", "w", "e", "l", ",", " ", "n", "o", "n", "-", "s", "p", "e", "e", "c", "h", " ", "a", "n", "d", " ", "s", "p", "e", "e", "c", "h", ")", "(", "2", ",", " ", "N", "o", "n", " ", "S", "p", "e", "e", "c", "h", ",", " ", "m", "i", "d", "d", "l", "e", ",", " ", "c", "o", "n", "s", "o", "n", "a", "n", "t", ",", " ", "a", " ", "p", "a", "u", "s", "e", " ", "t", "h", "e", "n", " ", "a", " ", "s", "t", "o", "p", ")", "(", "3", ",", " ", "s", "p", "e", "e", "c", "h", ",", " ", "h", "i", "g", "h", ",", " ", "v", "o", "i", "c", "e", "l", "e", "s", "s", ",", " ", "h", "i", "g", "h", " ", "b", "u", "r", "s", "t", ")">>,
     gt |-> <<"(", "1", ",", " ", "s", "p", "e", "e", "c", "h", ",", " ", "l", "o", "w", ",", " ", "v", "o", "w", "e", "l", ",", " ", "l", "o", "w", " ", "v", "o", "w", "e", "l", " ", "s", "p", "e", "e", "c", "h", ")", "\n", "(", "2", ",", " ", "N", "o", "n", " ", "S", "p", "e", "e", "c", "h", ",", " ", "m", "i", "d", "d", "l", "e", ",", " ", "c", "o", "n", "s", "o", "n", "a", "n", "t", ",", " ", "a", " ", "p", "a", "u", "s", "e", " ", "t", "h", "e", "n", " ", "a", " ", "s", "t", "o", "p", ")", "\n", "(", "3", ",", " ", "s", "p", "e", "e", "c", "h", ",", " ", "h", "i", "g", "h", ",", " ", "v", "o", "i", "c", "e", "l", "e", "s", "s", ",", " ", "h", "i", "g", "h", " ", "b", "u", "r", "s", "t", ")">>],
    [completion |-> <<"(", "1", ",", " ", "s", "p", "e", "e", "c", "h", ",", " ", "l", "o", "w", ",", " ", "v", "o", "w", "e", "l", ",", " ", "l", "o", "w", " ", "v", "o", "w", "e", "l", " ", "s", "p", "e", "e", "c", "h", ")", "\n", "(", "2", ",", " ", "N", "o", "n", " ", "S", "p", "e", "e", "c", "h", ",", " ", "m", "i", "d", "d", "l", "e", ",", " ", "c", "o", "n", "s", "o", "n", "a", "n", "t", ",", " ", "a", " ", "p", "a", "u", "s", "e", " ", "t", "h", "e", "n", " ", "a", " ", "s", "t", "o", "p", ")", "\n", "(", "3", ",", " ", "s", "p", "e", "e", "c", "h", ",", " ", "h", "i", "g", "h", ",", " ", "v", "o", "i", "c", "e", "l", "e", "s", "s", ",", " ", "h", "i", "g", "h", " ", "b", "u", "r", "s", "t", ")", "(", "4", ",", " ", "s", "p", "e", "e", "c", "h", ",", " ", "l", "o", "w", ",", " ", "v", "o", "w", "e", "l", ",", " ", "x", ")">>,
     gt |-> <<"(", "1", ",", " ", "s", "p", "e", "e", "c", "h", ",", " ", "l", "o", "w", ",", " ", "v", "o", "w", "e", "l", ",", " ", "l", "o", "w", " ", "v", "o", "w", "e", "l", " ", "s", "p", "e", "e", "c", "h", ")", "\n", "(", "2", ",", " ", "N", "o", "n", " ", "S", "p", "e", "e", "c", "h", ",", " ", "m", "i", "d", "d", "l", "e", ",", " ", "c", "o", "n", "s", "o", "n", "a", "n", "t", ",", " ", "a", " ", "p", "a", "u", "s", "e", " ", "t", "h", "e", "n", " ", "a", " ", "s", "t", "o", "p", ")", "\n", "(", "3", ",", " ", "s", "p", "e", "e", "c", "h", ",", " ", "h", "i", "g", "h", ",", " ", "v", "o", "i", "c", "e", "l", "e", "s", "s", ",", " ", "h", "i", "g", "h", " ", "b", "u", "r", "s", "t", ")">>],
    [completion |-> <<"(", "1", ",", " ", "s", "p", "e", "e", "c", "h", ",", " ", "l", "o", "w", ",", " ", "v", "o", "w", "e", "l", ",", " ", "l", "o", "w", " ", "v", "o", "w", "e", "l", " ", "s", "p", "e", "e", "c", "h", ")", "(", "2", ",", " ", "N", "o", "n", " ", "S", "p", "e", "e", "c", "h", ",", " ", "m", "i", "d", "d", "l", "e", ",", " ", "c", "o", "n", "s", "o", "n", "a", "n", "t", ",", " ", "a", " ", "p", "a", "u", "s", "e", " ", "t", "h", "e", "n", " ", "a", " ", "s", "t", "o", "p", ")">>,
     gt |-> <<"(", "1", ",", " ", "s", "p", "e", "e", "c", "h", ",", " ", "l", "o", "w", ",", " ", "v", "o", "w", "e", "l", ",", " ", "l", "o", "w", " ", "v", "o", "w", "e", "l", " ", "s", "p", "e", "e", "c", "h", ")", "\n", "(", "2", ",", " ", "N", "o", "n", " ", "S", "p", "e", "e", "c", "h", ",", " ", "m", "i", "d", "d", "l", "e", ",", " ", "c", "o", "n", "s", "o", "n", "a", "n", "t", ",", " ", "a", " ", "p", "a", "u", "s", "e", " ", "t", "h", "e", "n", " ", "a", " ", "s", "t", "o", "p", ")", "\n", "(", "3", ",", " ", "s", "p", "e", "e", "c", "h", ",", " ", "h", "i", "g", "h", ",", " ", "v", "o", "i", "c", "e", "l", "e", "s", "s", ",", " ", "h", "i", "g", "h", " ", "b", "u", "r", "s", "t", ")">>],
    [completion |-> <<"(", "0", ",", " ", "s", "p", "e", "e", "c", "h", ",", " ", "l", "o", "w", ",", " ", "v", "o", "w", "e", "l", ",", " ", "x", ")", "(", "2", ",", " ", "N", "o", "n", " ", "S", "p", "e", "e", "c", "h", ",", " ", "m", "i", "d", "d", "l", "e", ",", " ", "c", "o", "n", "s", "o", "n", "a", "n", "t", ",", " ", "a", " ", "p", "a", "u", "s", "e", " ", "t", "h", "e", "n", " ", "a", " ", "s", "t", "o", "p", ")", "(", "3", ",", " ", "s", "p", "e", "e", "c", "h", ",", " ", "h", "i", "g", "h", ",", " ", "v", "o", "i", "c", "e", "l", "e", "s", "s", ",", " ", "h", "i", "g", "h", " ", "b", "u", "r", "s", "t", ")">>,
     gt |-> <<"(", "1", ",", " ", "s", "p", "e", "e", "c", "h", ",", " ", "l", "o", "w", ",", " ", "v", "o", "w", "e", "l", ",", " ", "l", "o", "w", " ", "v", "o", "w", "e", "l", " ", "s", "p", "e", "e", "c", "h", ")", "\n", "(", "2", ",", " ", "N", "o", "n", " ", "S", "p", "e", "e", "c", "h", ",", " ", "m", "i", "d", "d", "l", "e", ",", " ", "c", "o", "n", "s", "o", "n", "a", "n", "t", ",", " ", "a", " ", "p", "a", "u", "s", "e", " ", "t", "h", "e", "n", " ", "a", " ", "s", "t", "o", "p", ")", "\n", "(", "3", ",", " ", "s", "p", "e", "e", "c", "h", ",", " ", "h", "i", "g", "h", ",", " ", "v", "o", "i", "c", "e", "l", "e", "s", "s", ",", " ", "h", "i", "g", "h", " ", "b", "u", "r", "s", "t", ")">>],
    [completion |-> <<"(", "1", ",", " ", "s", "p", "e", "e", "c", "h", ",", " ", "l", "o", "w", ",", " ", "v", "o", "w", "e", "l", ",", " ", "l", "o", "w", " ", "v", "o", "w", "e", "l", " ", "s", "p", "e", "e", "c", "h", ")", "(", "1", ",", " ", "s", "p", "e", "e", "c", "h", ",", " ", "h", "i", "g", "h", ",", " ", "v", "o", "w", "e", "l", ",", " ", "x", ")", "(", "3", ",", " ", "s", "p", "e", "e", "c", "h", ",", " ", "h", "i", "g", "h", ",", " ", "v", "o", "i", "c", "e", "l", "e", "s", "s", ",", " ", "h", "i", "g", "h", " ", "b", "u", "r", "s", "t", ")">>,
     gt |-> <<"(", "1", ",", " ", "s", "p", "e", "e", "c", "h", ",", " ", "l", "o", "w", ",", " ", "v", "o", "w", "e", "l", ",", " ", "l", "o", "w", " ", "v", "o", "w", "e", "l", " ", "s", "p", "e", "e", "c", "h", ")", "\n", "(", "2", ",", " ", "N", "o", "n", " ", "S", "p", "e", "e", "c", "h", ",", " ", "m", "i", "d", "d", "l", "e", ",", " ", "c", "o", "n", "s", "o", "n", "a", "n", "t", ",", " ", "a", " ", "p", "a", "u", "s", "e", " ", "t", "h", "e", "n", " ", "a", " ", "s", "t", "o", "p", ")", "\n", "(", "3", ",", " ", "s", "p", "e", "e", "c", "h", ",", " ", "h", "i", "g", "h", ",", " ", "v", "o", "i", "c", "e", "l", "e", "s", "s", ",", " ", "h", "i", "g", "h", " ", "b", "u", "r", "s", "t", ")">>],
    [completion |-> <<"(", "1", ",", " ", "s", "p", "e", "e", "c", "h", ",", " ", "u", "l", "t", "r", "a", "-", "h", "i", "g", "h", ",", " ", "v", "o", "w", "e", "l", ",", " ", "x", ")", "(", "2", ",", " ", "N", "o", "n", " ", "S", "p", "e", "e", "c", "h", ",", " ", "m", "i", "d", "d", "l", "e", ",", " ", "c", "o", "n", "s", "o", "n", "a", "n", "t", ",", " ", "a", " ", "p", "a", "u", "s", "e", " ", "t", "h", "e", "n", " ", "a", " ", "s", "t", "o", "p", ")", "(", "3", ",", " ", "s", "p", "e", "e", "c", "h", ",", " ", "h", "i", "g", "h", ",", " ", "v", "o", "i", "c", "e", "l", "e", "s", "s", ",", " ", "h", "i", "g", "h", " ", "b", "u", "r", "s", "t", ")">>,
     gt |-> <<"(", "1", ",", " ", "s", "p", "e", "e", "c", "h", ",", " ", "l", "o", "w", ",", " ", "v", "o", "w", "e", "l", ",", " ", "l", "o", "w", " ", "v", "o", "w", "e", "l", " ", "s", "p", "e", "e", "c", "h", ")", "\n", "(", "2", ",", " ", "N", "o", "n", " ", "S", "p", "e", "e", "c", "h", ",", " ", "m", "i", "d", "d", "l", "e", ",", " ", "c", "o", "n", "s", "o", "n", "a", "n", "t", ",", " ", "a", " ", "p", "a", "u", "s", "e", " ", "t", "h", "e", "n", " ", "a", " ", "s", "t", "o", "p", ")", "\n", "(", "3", ",", " ", "s", "p", "e", "e", "c", "h", ",", " ", "h", "i", "g", "h", ",", " ", "v", "o", "i", "c", "e", "l", "e", "s", "s", ",", " ", "h", "i", "g", "h", " ", "b", "u", "r", "s", "t", ")">>],
    [completion |-> <<"(", "1", ",", " ", "s", "p", "e", "e", "c", "h", ",", " ", "l", "o", "w", ",", " ", "v", "o", "w", "e", "l", ",", " ", ")", "(", "2", ",", " ", "N", "o", "n", " ", "S", "p", "e", "e", "c", "h", ",", " ", "m", "i", "d", "d", "l", "e", ",", " ", "c", "o", "n", "s", "o", "n", "a", "n", "t", ",", " ", "a", " ", "p", "a", "u", "s", "e", " ", "t", "h", "e", "n", " ", "a", " ", "s", "t", "o", "p", ")", "(", "3", ",", " ", "s", "p", "e", "e", "c", "h", ",", " ", "h", "i", "g", "h", ",", " ", "v", "o", "i", "c", "e", "l", "e", "s", "s", ",", " ", "h", "i", "g", "h", " ", "b", "u", "r", "s", "t", ")">>,
     gt |-> <<"(", "1", ",", " ", "s", "p", "e", "e", "c", "h", ",", " ", "l", "o", "w", ",", " ", "v", "o", "w", "e", "l", ",", " ", "l", "o", "w", " ", "v", "o", "w", "e", "l", " ", "s", "p", "e", "e", "c", "h", ")", "\n", "(", "2", ",", " ", "N", "o", "n", " ", "S", "p", "e", "e", "c", "h", ",", " ", "m", "i", "d", "d", "l", "e", ",", " ", "c", "o", "n", "s", "o", "n", "a", "n", "t", ",", " ", "a", " ", "p", "a", "u", "s", "e", " ", "t", "h", "e", "n", " ", "a", " ", "s", "t", "o", "p", ")", "\n", "(", "3", ",", " ", "s", "p", "e", "e", "c", "h", ",", " ", "h", "i", "g", "h", ",", " ", "v", "o", "i", "c", "e", "l", "e", "s", "s", ",", " ", "h", "i", "g", "h", " ", "b", "u", "r", "s", "t", ")">>],
    [completion |-> <<"(", "1", ",", " ", " ", ",", " ", "l", "o", "w", ",", " ", "v", "o", "w", "e", "l", ",", " ", "x", ")", "(", "2", ",", " ", "N", "o", "n", " ", "S", "p", "e", "e", "c", "h", ",", " ", "m", "i", "d", "d", "l", "e", ",", " ", "c", "o", "n", "s", "o", "n", "a", "n", "t", ",", " ", "a", " ", "p", "a", "u", "s", "e", " ", "t", "h", "e", "n", " ", "a", " ", "s", "t", "o", "p", ")", "(", "3", ",", " ", "s", "p", "e", "e", "c", "h", ",", " ", "h", "i", "g", "h", ",", " ", "v", "o", "i", "c", "e", "l", "e", "s", "s", ",", " ", "h", "i", "g", "h", " ", "b", "u", "r", "s", "t", ")">>,
     gt |-> <<"(", "1", ",", " ", "s", "p", "e", "e", "c", "h", ",", " ", "l", "o", "w", ",", " ", "v", "o", "w", "e", "l", ",", " ", "l", "o", "w", " ", "v", "o", "w", "e", "l", " ", "s", "p", "e", "e", "c", "h", ")", "\n", "(", "2", ",", " ", "N", "o", "n", " ", "S", "p", "e", "e", "c", "h", ",", " ", "m", "i", "d", "d", "l", "e", ",", " ", "c", "o", "n", "s", "o", "n", "a", "n", "t", ",", " ", "a", " ", "p", "a", "u", "s", "e", " ", "t", "h", "e", "n", " ", "a", " ", "s", "t", "o", "p", ")", "\n", "(", "3", ",", " ", "s", "p", "e", "e", "c", "h", ",", " ", "h", "i", "g", "h", ",", " ", "v", "o", "i", "c", "e", "l", "e", "s", "s", ",", " ", "h", "i", "g", "h", " ", "b", "u", "r", "s", "t", ")">>],
    [completion |-> <<"(", "1", ",", " ", "s", "p", "e", "e", "c", "h", ",", " ", "l", "o", "w", ",", " ", "v", "o", "w", "e", "l", ")", "(", "2", ",", " ", "N", "o", "n", " ", "S", "p", "e", "e", "c", "h", ",", " ", "m", "i", "d", "d", "l", "e", ",", " ", "c", "o", "n", "s", "o", "n", "a", "n", "t", ",", " ", "a", " ", "p", "a", "u", "s", "e", " ", "t", "h", "e", "n", " ", "a", " ", "s", "t", "o", "p", ")", "(", "3", ",", " ", "s", "p", "e", "e", "c", "h", ",", " ", "h", "i", "g", "h", ",", " ", "v", "o", "i", "c", "e", "l", "e", "s", "s", ",", " ", "h", "i", "g", "h", " ", "b", "u", "r", "s", "t", ")">>,
     gt |-> <<"(", "1", ",", " ", "s", "p", "e", "e", "c", "h", ",", " ", "l", "o", "w", ",", " ", "v", "o", "w", "e", "l", ",", " ", "l", "o", "w", " ", "v", "o", "w", "e", "l", " ", "s", "p", "e", "e", "c", "h", ")", "\n", "(", "2", ",", " ", "N", "o", "n", " ", "S", "p", "e", "e", "c", "h", ",", " ", "m", "i", "d", "d", "l", "e", ",", " ", "c", "o", "n", "s", "o", "n", "a", "n", "t", ",", " ", "a", " ", "p", "a", "u", "s", "e", " ", "t", "h", "e", "n", " ", "a", " ", "s", "t", "o", "p", ")", "\n", "(", "3", ",", " ", "s", "p", "e", "e", "c", "h", ",", " ", "h", "i", "g", "h", ",", " ", "v", "o", "i", "c", "e", "l", "e", "s", "s", ",", " ", "h", "i", "g", "h", " ", "b", "u", "r", "s", "t", ")">>],
    [completion |-> <<"(", "a", ",", " ", "s", "p", "e", "e", "c", "h", ",", " ", "l", "o", "w", ",", " ", "v", "o", "w", "e", "l", ",", " ", "x", ")", "(", "2", ",", " ", "N", "o", "n", " ", "S", "p", "e", "e", "c", "h", ",", " ", "m", "i", "d", "d", "l", "e", ",", " ", "c", "o", "n", "s", "o", "n", "a", "n", "t", ",", " ", "a", " ", "p", "a", "u", "s", "e", " ", "t", "h", "e", "n", " ", "a", " ", "s", "t", "o", "p", ")", "(", "3", ",", " ", "s", "p", "e", "e", "c", "h", ",", " ", "h", "i", "g", "h", ",", " ", "v", "o", "i", "c", "e", "l", "e", "s", "s", ",", " ", "h", "i", "g", "h", " ", "b", "u", "r", "s", "t", ")">>,
     gt |-> <<"(", "1", ",", " ", "s", "p", "e", "e", "c", "h", ",", " ", "l", "o", "w", ",", " ", "v", "o", "w", "e", "l", ",", " ", "l", "o", "w", " ", "v", "o", "w", "e", "l", " ", "s", "p", "e", "e", "c", "h", ")", "\n", "(", "2", ",", " ", "N", "o", "n", " ", "S", "p", "e", "e", "c", "h", ",", " ", "m", "i", "d", "d", "l", "e", ",", " ", "c", "o", "n", "s", "o", "n", "a", "n", "t", ",", " ", "a", " ", "p", "a", "u", "s", "e", " ", "t", "h", "e", "n", " ", "a", " ", "s", "t", "o", "p", ")", "\n", "(", "3", ",", " ", "s", "p", "e", "e", "c", "h", ",", " ", "h", "i", "g", "h", ",", " ", "v", "o", "i", "c", "e", "l", "e", "s", "s", ",", " ", "h", "i", "g", "h", " ", "b", "u", "r", "s", "t", ")">>],
    [completion |-> <<"(", "1", ",", " ", "s", "p", "e", "e", "c", "h", ",", " ", "l", "o", "w", ",", " ", "v", "o", "w", "e", "l", ",", " ", "x">>,
     gt |-> <<"(", "1", ",", " ", "s", "p", "e", "e", "c", "h", ",", " ", "l", "o", "w", ",", " ", "v", "o", "w", "e", "l", ",", " ", "l", "o", "w", " ", "v", "o", "w", "e", "l", " ", "s", "p", "e", "e", "c", "h", ")", "\n", "(", "2", ",", " ", "N", "o", "n", " ", "S", "p", "e", "e", "c", "h", ",", " ", "m", "i", "d", "d", "l", "e", ",", " ", "c", "o", "n", "s", "o", "n", "a", "n", "t", ",", " ", "a", " ", "p", "a", "u", "s", "e", " ", "t", "h", "e", "n", " ", "a", " ", "s", "t", "o", "p", ")", "\n", "(", "3", ",", " ", "s", "p", "e", "e", "c", "h", ",", " ", "h", "i", "g", "h", ",", " ", "v", "o", "i", "c", "e", "l", "e", "s", "s", ",", " ", "h", "i", "g", "h", " ", "b", "u", "r", "s", "t", ")">>],
    [completion |-> <<>>,
     gt |-> <<"(", "1", ",", " ", "s", "p", "e", "e", "c", "h", ",", " ", "l", "o", "w", ",", " ", "v", "o", "w", "e", "l", ",", " ", "l", "o", "w", " ", "v", "o", "w", "e", "l", " ", "s", "p", "e", "e", "c", "h", ")", "\n", "(", "2", ",", " ", "N", "o", "n", " ", "S", "p", "e", "e", "c", "h", ",", " ", "m", "i", "d", "d", "l", "e", ",", " ", "c", "o", "n", "s", "o", "n", "a", "n", "t", ",", " ", "a", " ", "p", "a", "u", "s", "e", " ", "t", "h", "e", "n", " ", "a", " ", "s", "t", "o", "p", ")", "\n", "(", "3", ",", " ", "s", "p", "e", "e", "c", "h", ",", " ", "h", "i", "g", "h", ",", " ", "v", "o", "i", "c", "e", "l", "e", "s", "s", ",", " ", "h", "i", "g", "h", " ", "b", "u", "r", "s", "t", ")">>],
    [completion |-> <<"U+00E9">>,
     gt |-> <<"(", "1", ",", " ", "s", "p", "e", "e", "c", "h", ",", " ", "l", "o", "w", ",", " ", "v", "o", "w", "e", "l", ",", " ", "l", "o", "w", " ", "v", "o", "w", "e", "l", " ", "s", "p", "e", "e", "c", "h", ")", "\n", "(", "2", ",", " ", "N", "o", "n", " ", "S", "p", "e", "e", "c", "h", ",", " ", "m", "i", "d", "d", "l", "e", ",", " ", "c", "o", "n", "s", "o", "n", "a", "n", "t", ",", " ", "a", " ", "p", "a", "u", "s", "e", " ", "t", "h", "e", "n", " ", "a", " ", "s", "t", "o", "p", ")", "\n", "(", "3", ",", " ", "s", "p", "e", "e", "c", "h", ",", " ", "h", "i", "g", "h", ",", " ", "v", "o", "i", "c", "e", "l", "e", "s", "s", ",", " ", "h", "i", "g", "h", " ", "b", "u", "r", "s", "t", ")">>],
    [completion |-> <<"(", "1", ",", " ", "s", "p", "e", "e", "c", "h", ",", " ", "l", "o", "w", ",", " ", "v", "o", "w", "e", "l", ",", " ", "l", "o", "w", " ", "v", "o", "w", "e", "l", " ", "s", "p", "e", "e", "c", "h", ")", "\n", "(", "2", ",", " ", "N", "o", "n", " ", "S", "p", "e", "e", "c", "h", ",", " ", "m", "i", "d", "d", "l", "e", ",", " ", "c", "o", "n", "s", "o", "n", "a", "n", "t", ",", " ", "a", " ", "p", "a", "u", "s", "e", " ", "t", "h", "e", "n", " ", "a", " ", "s", "t", "o", "p", ")", "\n", "(", "3", ",", " ", "s", "p", "e", "e", "c", "h", ",", " ", "h", "i", "g", "h", ",", " ", "v", "o", "i", "c", "e", "l", "e", "s", "s", ",", " ", "h", "i", "g", "h", " ", "b", "u", "r", "s", "t", ")">>,
     gt |-> <<>>],
    [completion |-> <<"(", "1", ",", " ", "s", "p", "e", "e", "c", "h", ",", " ", "l", "o", "w", ",", " ", "v", "o", "w", "e", "l", ",", " ", "l", "o", "w", " ", "v", "o", "w", "e", "l", " ", "s", "p", "e", "e", "c", "h", ")", "\n", "(", "2", ",", " ", "N", "o", "n", " ", "S", "p", "e", "e", "c", "h", ",", " ", "m", "i", "d", "d", "l", "e", ",", " ", "c", "o", "n", "s", "o", "n", "a", "n", "t", ",", " ", "a", " ", "p", "a", "u", "s", "e", " ", "t", "h", "e", "n", " ", "a", " ", "s", "t", "o", "p", ")", "\n", "(", "3", ",", " ", "s", "p", "e", "e", "c", "h", ",", " ", "h", "i", "g", "h", ",", " ", "v", "o", "i", "c", "e", "l", "e", "s", "s", ",", " ", "h", "i", "g", "h", " ", "b", "u", "r", "s", "t", ")">>,
     gt |-> <<"(", "1", ",", " ", "s", "p", "e", "e", "c", "h", ",", " ", "l", "o", "w", ",", " ", "v", "o", "w", "e", "l", ",", " ", "l", "o", "w", " ", "v", "o", "w", "e", "l", " ", "s", "p", "e", "e", "c", "h", ")", "(", "2", ",", " ", "N", "o", "n", " ", "S", "p", "e", "e", "c", "h", ",", " ", "m", "i", "d", "d", "l", "e", ",", " ", "c", "o", "n", "s", "o", "n", "a", "n", "t", ",", " ", "a", " ", "p", "a", "u", "s", "e", " ", "t", "h", "e", "n", " ", "a", " ", "s", "t", "o", "p", ")">>],
    [completion |-> <<"(", "1", ",", " ", "s", "p", "e", "e", "c", "h", ",", " ", "l", "o", "w", ",", " ", "v", "o", "w", "e", "l", ",", " ", "l", "o", "w", " ", "v", "o", "w", "e", "l", " ", "s", "p", "e", "e", "c", "h", ")", "\n", "(", "2", ",", " ", "N", "o", "n", " ", "S", "p", "e", "e", "c", "h", ",", " ", "m", "i", "d", "d", "l", "e", ",", " ", "c", "o", "n", "s", "o", "n", "a", "n", "t", ",", " ", "a", " ", "p", "a", "u", "s", "e", " ", "t", "h", "e", "n", " ", "a", " ", "s", "t", "o", "p", ")", "\n", "(", "3", ",", " ", "s", "p", "e", "e", "c", "h", ",", " ", "h", "i", "g", "h", ",", " ", "v", "o", "i", "c", "e", "l", "e", "s", "s", ",", " ", "h", "i", "g", "h", " ", "b", "u", "r", "s", "t", ")">>,
     gt |-> <<"[", "1", ",", " ", "2", ",", " ", "3", "]">>],
    [completion |-> <<"(">> \o LongDigits \o <<",", " ", "s", "p", "e", "e", "c", "h", ",", " ", "l", "o", "w", ",", " ", "v", "o", "w", "e", "l", ",", " ", "x", ")", "(", "2", ",", " ", "N", "o", "n", " ", "S", "p", "e", "e", "c", "h", ",", " ", "m", "i", "d", "d", "l", "e", ",", " ", "c", "o", "n", "s", "o", "n", "a", "n", "t", ",", " ", "a", " ", "p", "a", "u", "s", "e", " ", "t", "h", "e", "n", " ", "a", " ", "s", "t", "o", "p", ")", "(", "3", ",", " ", "s", "p", "e", "e", "c", "h", ",", " ", "h", "i", "g", "h", ",", " ", "v", "o", "i", "c", "e", "l", "e", "s", "s", ",", " ", "h", "i", "g", "h", " ", "b", "u", "r", "s", "t", ")">>,
     gt |-> <<"(", "1", ",", " ", "s", "p", "e", "e", "c", "h", ",", " ", "l", "o", "w", ",", " ", "v", "o", "w", "e", "l", ",", " ", "l", "o", "w", " ", "v", "o", "w", "e", "l", " ", "s", "p", "e", "e", "c", "h", ")", "\n", "(", "2", ",", " ", "N", "o", "n", " ", "S", "p", "e", "e", "c", "h", ",", " ", "m", "i", "d", "d", "l", "e", ",", " ", "c", "o", "n", "s", "o", "n", "a", "n", "t", ",", " ", "a", " ", "p", "a", "u", "s", "e", " ", "t", "h", "e", "n", " ", "a", " ", "s", "t", "o", "p", ")", "\n", "(", "3", ",", " ", "s", "p", "e", "e", "c", "h", ",", " ", "h", "i", "g", "h", ",", " ", "v", "o", "i", "c", "e", "l", "e", "s", "s", ",", " ", "h", "i", "g", "h", " ", "b", "u", "r", "s", "t", ")">>],
    [completion |-> <<"(", "1", ",", " ", "s", "p", "e", "e", "c", "h", ",", " ", "l", "o", "w", ",", " ", "v", "o", "w", "e", "l", ",", " ", "l", "o", "w", " ", "v", "o", "w", "e", "l", " ", "s", "p", "e", "e", "c", "h", ")", "\n", "(", "2", ",", " ", "N", "o", "n", " ", "S", "p", "e", "e", "c", "h", ",", " ", "m", "i", "d", "d", "l", "e", ",", " ", "c", "o", "n", "s", "o", "n", "a", "n", "t", ",", " ", "a", " ", "p", "a", "u", "s", "e", " ", "t", "h", "e", "n", " ", "a", " ", "s", "t", "o", "p", ")", "\n", "(", "3", ",", " ", "s", "p", "e", "e", "c", "h", ",", " ", "h", "i", "g", "h", ",", " ", "v", "o", "i", "c", "e", "l", "e", "s", "s", ",", " ", "h", "i", "g", "h", " ", "b", "u", "r", "s", "t", ")">>,
     gt |-> <<"(">> \o LongDigits \o <<",", " ", "s", "p", "e", "e", "c", "h", ",", " ", "l", "o", "w", ",", " ", "v", "o", "w", "e", "l", ",", " ", "x", ")", "(", "2", ",", " ", "N", "o", "n", " ", "S", "p", "e", "e", "c", "h", ",", " ", "m", "i", "d", "d", "l", "e", ",", " ", "c", "o", "n", "s", "o", "n", "a", "n", "t", ",", " ", "a", " ", "p", "a", "u", "s", "e", " ", "t", "h", "e", "n", " ", "a", " ", "s", "t", "o", "p", ")", "(", "3", ",", " ", "s", "p", "e", "e", "c", "h", ",", " ", "h", "i", "g", "h", ",", " ", "v", "o", "i", "c", "e", "l", "e", "s", "s", ",", " ", "h", "i", "g", "h", " ", "b", "u", "r", "s", "t", ")">>],
    [completion |-> <<>>,
     gt |-> <<"(">> \o LongDigits \o <<",", " ", "s", "p", "e", "e", "c", "h", ",", " ", "l", "o", "w", ",", " ", "v", "o", "w", "e", "l", ",", " ", "x", ")", "(", "2", ",", " ", "N", "o", "n", " ", "S", "p", "e", "e", "c", "h", ",", " ", "m", "i", "d", "d", "l", "e", ",", " ", "c", "o", "n", "s", "o", "n", "a", "n", "t", ",", " ", "a", " ", "p", "a", "u", "s", "e", " ", "t", "h", "e", "n", " ", "a", " ", "s", "t", "o", "p", ")", "(", "3", ",", " ", "s", "p", "e", "e", "c", "h", ",", " ", "h", "i", "g", "h", ",", " ", "v", "o", "i", "c", "e", "l", "e", "s", "s", ",", " ", "h", "i", "g", "h", " ", "b", "u", "r", "s", "t", ")">>],
    [completion |-> <<"(", "1", ",", " ", "s", "p", "e", "e", "c", "h", ",", " ", "u", "l", "t", "r", "a", "-", "h", "i", "g", "h", ",", " ", "v", "o", "w", "e", "l", ",", " ", "x", ")", "(">> \o LongDigits \o <<",", " ", "s", "p", "e", "e", "c", "h", ",", " ", "l", "o", "w", ",", " ", "v", "o", "w", "e", "l", ",", " ", "x", ")", "(", "3", ",", " ", "s", "p", "e", "e", "c", "h", ",", " ", "h", "i", "g", "h", ",", " ", "v", "o", "i", "c", "e", "l", "e", "s", "s", ",", " ", "h", "i", "g", "h", " ", "b", "u", "r", "s", "t", ")">>,
     gt |-> <<"(", "1", ",", " ", "s", "p", "e", "e", "c", "h", ",", " ", "l", "o", "w", ",", " ", "v", "o", "w", "e", "l", ",", " ", "l", "o", "w", " ", "v", "o", "w", "e", "l", " ", "s", "p", "e", "e", "c", "h", ")", "\n", "(", "2", ",", " ", "N", "o", "n", " ", "S", "p", "e", "e", "c", "h", ",", " ", "m", "i", "d", "d", "l", "e", ",", " ", "c", "o", "n", "s", "o", "n", "a", "n", "t", ",", " ", "a", " ", "p", "a", "u", "s", "e", " ", "t", "h", "e", "n", " ", "a", " ", "s", "t", "o", "p", ")", "\n", "(", "3", ",", " ", "s", "p", "e", "e", "c", "h", ",", " ", "h", "i", "g", "h", ",", " ", "v", "o", "i", "c", "e", "l", "e", "s", "s", ",", " ", "h", "i", "g", "h", " ", "b", "u", "r", "s", "t", ")">>],
    [completion |-> <<"(">> \o LongDigits \o <<",", " ", "s", "p", "e", "e", "c", "h", ",", " ", "l", "o", "w", ",", " ", "v", "o", "w", "e", "l", ",", " ", "x", ")">>,
     gt |-> <<"(", "1", ",", " ", "s", "p", "e", "e", "c", "h", ",", " ", "l", "o", "w", ",", " ", "v", "o", "w", "e", "l", ",", " ", "l", "o", "w", " ", "v", "o", "w", "e", "l", " ", "s", "p", "e", "e", "c", "h", ")", "\n", "(", "2", ",", " ", "N", "o", "n", " ", "S", "p", "e", "e", "c", "h", ",", " ", "m", "i", "d", "d", "l", "e", ",", " ", "c", "o", "n", "s", "o", "n", "a", "n", "t", ",", " ", "a", " ", "p", "a", "u", "s", "e", " ", "t", "h", "e", "n", " ", "a", " ", "s", "t", "o", "p", ")", "\n", "(", "3", ",", " ", "s", "p", "e", "e", "c", "h", ",", " ", "h", "i", "g", "h", ",", " ", "v", "o", "i", "c", "e", "l", "e", "s", "s", ",", " ", "h", "i", "g", "h", " ", "b", "u", "r", "s", "t", ")">>] >>

\* Inputs of the direct calls of _ndcg_at_3.
IdPool == {2, 5, 9}

MaxGt == 3

Selections == {q \in [1..3 -> IdPool] : Cardinality(SeqToSet(q)) = 3}

\* Values handed to the categorical normalizers: every label and alias in
\* several spellings (case, padding, runs of whitespace), and near misses.
NormTokens == {
    <<"s", "p", "e", "e", "c", "h">>,
    <<"S", "P", "E", "E", "C", "H">>,
    <<"S", "p", "e", "e", "c", "h">>,
    <<" ", " ", "s", "p", "e", "e", "c", "h", "\t", "\n">>,
    <<"n", "o", "n", "-", "s", "p", "e", "e", "c", "h">>,
    <<"N", "O", "N", "-", "S", "P", "E", "E", "C", "H">>,
    <<"N", "o", "n", "-", "S", "p", "e", "e", "c", "h">>,
    <<" ", " ", "n", "o", "n", "-", "s", "p", "e", "e", "c", "h", "\t", "\n">>,
    <<"n", "o", "n", " ", "s", "p", "e", "e", "c", "h">>,
    <<"N", "O", "N", " ", "S", "P", "E", "E", "C", "H">>,
    <<"N", "o", "n", " ", "S", "p", "e", "e", "c", "h">>,
    <<" ", " ", "n", "o", "n", " ", "s", "p", "e", "e", "c", "h", "\t", "\n">>,
    <<"n", "o", "n", " ", "\t", " ", "s", "p", "e", "e", "c", "h">>,
    <<"n", "o", "n", "s", "p", "e", "e", "c", "h">>,
    <<"N", "O", "N", "S", "P", "E", "E", "C", "H">>,
    <<"N", "o", "n", "s", "p", "e", "e", "c", "h">>,
    <<" ", " ", "n", "o", "n", "s", "p", "e", "e", "c", "h", "\t", "\n">>,
    <<"l", "o", "w">>,
    <<"L", "O", "W">>,
    <<"L", "o", "w">>,
    <<" ", " ", "l", "o", "w", "\t", "\n">>,
    <<"m", "i", "d">>,
    <<"M", "I", "D">>,
    <<"M", "i", "d">>,
    <<" ", " ", "m", "i", "d", "\t", "\n">>,
    <<"m", "i", "d", "d", "l", "e">>,
    <<"M", "I", "D", "D", "L", "E">>,
    <<"M", "i", "d", "d", "l", "e">>,
    <<" ", " ", "m", "i", "d", "d", "l", "e", "\t", "\n">>,
    <<"h", "i", "g", "h">>,
    <<"H", "I", "G", "H">>,
    <<"H", "i", "g", "h">>,
    <<" ", " ", "h", "i", "g", "h", "\t", "\n">>,
    <<"v", "e", "r", "y", " ", "h", "i", "g", "h">>,
    <<"V", "E", "R", "Y", " ", "H", "I", "G", "H">>,
    <<"V", "e", "r", "y", " ", "H", "i", "g", "h">>,
    <<" ", " ", "v", "e", "r", "y", " ", "h", "i", "g", "h", "\t", "\n">>,
    <<"v", "e", "r", "y", " ", "\t", " ", "h", "i", "g", "h">>,
    <<"c", "o", "n", "s", "o", "n", "a", "n", "t">>,
    <<"C", "O", "N", "S", "O", "N", "A", "N", "T">>,
    <<"C", "o", "n", "s", "o", "n", "a", "n", "t">>,
    <<" ", " ", "c", "o", "n", "s", "o", "n", "a", "n", "t", "\t", "\n">>,
    <<"v", "o", "w", "e", "l">>,
    <<"V", "O", "W", "E", "L">>,
    <<"V", "o", "w", "e", "l">>,
    <<" ", " ", "v", "o", "w", "e", "l", "\t", "\n">>,
    <<"u", "n", "v", "o", "i", "c", "e", "d">>,
    <<"U", "N", "V", "O", "I", "C", "E", "D">>,
    <<"U", "n", "v", "o", "i", "c", "e", "d">>,
    <<" ", " ", "u", "n", "v", "o", "i", "c", "e", "d", "\t", "\n">>,
    <<"v", "o", "i", "c", "e", "l", "e", "s", "s">>,
    <<"V", "O", "I", "C", "E", "L", "E", "S", "S">>,
    <<"V", "o", "i", "c", "e", "l", "e", "s", "s">>,
    <<" ", " ", "v", "o", "i", "c", "e", "l", "e", "s", "s", "\t", "\n">>,
    <<"u", "l", "t", "r", "a", "-", "h", "i", "g", "h">>,
    <<"U", "L", "T", "R", "A", "-", "H", "I", "G", "H">>,
    <<"U", "l", "t", "r", "a", "-", "H", "i", "g", "h">>,
    <<" ", " ", "u", "l", "t", "r", "a", "-", "h", "i", "g", "h", "\t", "\n">>,
    <<"n", "o", "n", "_", "s", "p", "e", "e", "c", "h">>,
    <<"N", "O", "N", "_", "S", "P", "E", "E", "C", "H">>,
    <<"N", "o", "n", "_", "S", "p", "e", "e", "c", "h">>,
    <<" ", " ", "n", "o", "n", "_", "s", "p", "e", "e", "c", "h", "\t", "\n">>,
    <<"n", "o", "n", " ", "-", " ", "s", "p", "e", "e", "c", "h">>,
    <<"N", "O", "N", " ", "-", " ", "S", "P", "E", "E", "C", "H">>,
    <<"N", "o", "n", " ", "-", " ", "S", "p", "e", "e", "c", "h">>,
    <<" ", " ", "n", "o", "n", " ", "-", " ", "s", "p", "e", "e", "c", "h", "\t", "\n">>,
    <<"n", "o", "n", " ", "\t", " ", "-", " ", "\t", " ", "s", "p", "e", "e", "c", "h">>,
    <<"l", " ", "o", " ", "w">>,
    <<"L", " ", "O", " ", "W">>,
    <<" ", " ", "l", " ", "o", " ", "w", "\t", "\n">>,
    <<"l", " ", "\t", " ", "o", " ", "\t", " ", "w">>,
    <<"u", "n", "-", "v", "o", "i", "c", "e", "d">>,
    <<"U", "N", "-", "V", "O", "I", "C", "E", "D">>,
    <<"U", "n", "-", "V", "o", "i", "c", "e", "d">>,
    <<" ", " ", "u", "n", "-", "v", "o", "i", "c", "e", "d", "\t", "\n">>,
    <<>>,
    <<" ", " ", "\t", "\n">>,
    <<" ", "N", "o", "n", "-", "S", "p", "e", "e", "c", "h", " ">>,
    <<"M", "i", "D", "d", "L", "e">>,
    <<"V", "o", "i", "c", "e", "L", "e", "s", "s", "\r">> }

\* Arguments of the direct calls of _extract_label_by_lexicon: explanation
\* texts with no match, one match, count ties and position ties, and the
\* three lexicons of the module plus a two-label lexicon, in both orders,
\* whose labels share a pattern.
LexiconCalls ==
    LET shared == <<[label |-> <<"f", "i", "r", "s", "t">>, patterns |-> <<{<<"l", "o", "w">>}>>],
                    [label |-> <<"s", "e", "c", "o", "n", "d">>, patterns |-> <<{<<"l", "o", "w">>}, {<<"h", "i", "g", "h">>}>>]>>
    IN  [en_text : {
             <<>>,
             <<"c", "l", "e", "a", "r", " ", "t", "o", "n", "e">>,
             <<"s", "p", "e", "e", "c", "h">>,
             <<"S", "i", "l", "e", "n", "c", "e", " ", "t", "h", "e", "n", " ", "s", "p", "e", "e", "c", "h", " ", "t", "h", "e", "n", " ", "p", "a", "u", "s", "e">>,
             <<"s", "p", "e", "e", "c", "h", " ", "b", "e", "f", "o", "r", "e", " ", "s", "i", "l", "e", "n", "c", "e">>,
             <<"s", "i", "l", "e", "n", "c", "e", " ", "b", "e", "f", "o", "r", "e", " ", "s", "p", "e", "e", "c", "h">>,
             <<"n", "o", "n", "-", "s", "p", "e", "e", "c", "h">>,
             <<"l", "o", "w", " ", "h", "i", "g", "h", " ", "l", "o", "w">>,
             <<"h", "i", "g", "h", " ", "l", "o", "w">>,
             <<"l", "o", "w", " ", "h", "i", "g", "h">>,
             <<"m", "i", "d", " ", "m", "i", "d", "d", "l", "e", " ", "h", "i", "g", "h", " ", "h", "i", "g", "h">>,
             <<"h", "i", "g", "h", " ", "h", "i", "g", "h", " ", "m", "i", "d", " ", "m", "i", "d", "d", "l", "e">>,
             <<"v", "o", "w", "e", "l", " ", "f", "o", "r", "m", "a", "n", "t", " ", "s", "t", "o", "p">>,
             <<"s", "t", "o", "p", " ", "b", "u", "r", "s", "t", " ", "v", "o", "w", "e", "l">>,
             <<"b", "u", "r", "s", "t", " ", "s", "t", "o", "p", " ", "v", "o", "w", "e", "l">>,
             <<"u", "n", "v", "o", "i", "c", "e", "d", " ", "b", "u", "r", "s", "t", ";", " ", "v", "o", "i", "c", "e", "d", " ", "s", "p", "e", "e", "c", "h">>,
             <<"s", "p", "e", "e", "c", "h", "l", "e", "s", "s", " ", "l", "o", "w", "l", "a", "n", "d">>,
             <<"L", "O", "W", " ", "V", "o", "w", "e", "l", " ", "S", "P", "E", "E", "C", "H">>,
             <<"a", " ", "v", "o", "i", "c", "e", "d", " ", "v", "o", "w", "e", "l", " ", "w", "i", "t", "h", " ", "l", "o", "w", " ", "f", "o", "r", "m", "a", "n", "t">>,
             <<"n", "o", "i", "s", "e", " ", "o", "n", "l", "y", ",", " ", "n", "o", " ", "s", "p", "e", "e", "c", "h", ",", " ", "n", "o", " ", "s", "p", "e", "e", "c", "h">> },
         lexicon : {TIME_LEXICON, FREQ_LEXICON, PHON_LEXICON,
                    shared, <<shared[2], shared[1]>>}]

\* The largest cut-off k, and the longest prediction, of the direct calls of
\* the ranking metrics.
MaxK == 3

\* Predictions (with repeated IDs, shorter and longer than k) and ground
\* truths (empty, with a repeated ID, of 1 to 3 IDs) of those calls.
RankingInputs ==
    [pred : UNION {[1..n -> {1, 2, 3}] : n \in 0..MaxK},
     gt   : {<<>>, <<1>>, <<1, 1>>, <<1, 2>>, <<1, 2, 3>>}]

\* Ground truths and predictions of the direct calls of _bucket: predictions
\* of up to MaxK IDs inside and outside the GT, and some of 4 IDs.
BucketInputs ==
    [gt   : {<<1, 2, 3>>, <<3, 1, 2>>, <<1, 1, 2>>, <<1, 2>>, <<>>},
     pred : UNION {[1..n -> {1, 2, 3, 5, 6, 7}] : n \in 0..MaxK}
            \cup {<<1, 2, 3, 1>>, <<3, 2, 1, 3>>, <<1, 2, 3, 5>>, <<5, 1, 2, 3>>}]

\* The threads sharing the scorer, the calls each makes, the images of a
\* compute_score call, and the non-scalar lines the subprocess may print.
MaxThreads == 2

MaxCalls == 1

MaxImages == 1

MaxNoise == 1

\* _read_scalar_score(self, max_reads=64)
MAX_READS == 64

Threads == 1..MaxThreads

\* A thread outside a call.
NoCall == [pc |-> "idle", op |-> "none", n |-> 0, bad |-> 0, stage |-> "none", i |-> 0,
           remaining |-> 0, attempts |-> 0, result |-> "none", calls |-> 0]

VARIABLES completions, assistant, fn, ret, locals,
          \* one RobustMeteor shared by threads: self.lock (0 free, else the
          \* holding thread), the pipes of self.meteor_p (lines in flight),
          \* the scorer subprocess, and each thread's position and locals
          lock, stdin, stdout, proc, thread

vars == <<completions, assistant, fn, ret, locals, lock, stdin, stdout, proc, thread>>

NotCalled == [kind |-> "none", val |-> <<>>]

Init ==
    /\ FloatLiteralsRound
    /\ \E s \in 1..Len(Corpus), n \in 0..MaxBatch :
          /\ s + n - 1 <= Len(Corpus)
          /\ completions = [k \in 1..n |-> Corpus[s + k - 1].completion]
          /\ assistant = [k \in 1..n |-> Corpus[s + k - 1].gt]
    /\ fn = "none"
    /\ ret = NotCalled
    /\ locals = <<>>
    /\ lock = 0
    /\ stdin = <<>>
    /\ stdout = <<>>
    /\ proc = [alive |-> TRUE, aggregate |-> 1, noise |-> 0]
    /\ thread = [t \in Threads |-> NoCall]

Prompt1Reward ==
    /\ fn = "none"
    /\ fn' = "prompt1_reward"
    /\ LET Return(ndcg_scores, format_scores) ==
               /\ ret' = Prompt1Combine(ndcg_scores, format_scores)
               /\ locals' = IF Raised(ret') THEN <<>>
                            ELSE [ndcg_scores   |-> ndcg_scores.val,
                                  format_scores |-> format_scores.val]
       IN  Return(_ndcg3_score(completions, assistant), _strict_format_score(completions))
    /\ UNCHANGED <<completions, assistant, lock, stdin, stdout, proc, thread>>

Prompt2Reward ==
    /\ fn = "none"
    /\ fn' = "prompt2_reward"
    /\ LET Return(items) ==
               /\ ret' = ListOf(items)
               /\ locals' = IF Raised(ret') THEN <<>>
                            ELSE [k \in 1..Len(items) |-> items[k].regions]
       IN  Return(Prompt2Items(W_ACC, W_CONS, W_FMT, completions, assistant))
    /\ UNCHANGED <<completions, assistant, lock, stdin, stdout, proc, thread>>

Prompt2NoFieldAccuracyReward ==
    /\ fn = "none"
    /\ fn' = "prompt2_no_field_accuracy_reward"
    /\ LET Return(items) ==
               /\ ret' = ListOf(items)
               /\ locals' = IF Raised(ret') THEN <<>>
                            ELSE [k \in 1..Len(items) |-> items[k].regions]
       IN  Return(Prompt2Items(NFA_W_ACC, NFA_W_CONS, NFA_W_FMT, completions, assistant))
    /\ UNCHANGED <<completions, assistant, lock, stdin, stdout, proc, thread>>

StrictFormatScore ==
    /\ fn = "none"
    /\ fn' = "_strict_format_score"
    /\ ret' = _strict_format_score(completions)
    /\ locals' = <<>>
    /\ UNCHANGED <<completions, assistant, lock, stdin, stdout, proc, thread>>

ParseRegionIdsAny ==
    /\ fn = "none"
    /\ \E k \in 1..Len(completions) :
          /\ ret' = _parse_region_ids_any(completions[k])
          /\ locals' = [text |-> completions[k]]
    /\ fn' = "_parse_region_ids_any"
    /\ UNCHANGED <<completions, assistant, lock, stdin, stdout, proc, thread>>

\* A direct call of _ndcg_at_3, outside any batch: pred is a valid selection
\* (three distinct IDs), gt any list of at most MaxGt IDs.
NdcgAt3 ==
    /\ fn = "none"
    /\ completions = <<>>
    /\ \E pred \in Selections, n \in 0..MaxGt :
          \E gt \in [1..n -> IdPool] :
              /\ ret' = PyOk(_ndcg_at_3(pred, gt))
              /\ locals' = [pred |-> pred, gt |-> gt]
    /\ fn' = "_ndcg_at_3"
    /\ UNCHANGED <<completions, assistant, lock, stdin, stdout, proc, thread>>

ParseRegionTuples ==
    /\ fn = "none"
    /\ \E k \in 1..Len(completions) :
          \E text \in {completions[k], assistant[k]} :
              /\ ret' = _parse_region_tuples(text)
              /\ locals' = [text |-> text]
    /\ fn' = "_parse_region_tuples"
    /\ UNCHANGED <<completions, assistant, lock, stdin, stdout, proc, thread>>

\* A direct call of one of _normalize_time, _normalize_freq, _normalize_phon.
Normalize ==
    /\ fn = "none"
    /\ completions = <<>>
    /\ \E value \in NormTokens, f \in {"_normalize_time", "_normalize_freq", "_normalize_phon"} :
           /\ ret' = CASE f = "_normalize_time" -> _normalize_time(value)
                       [] f = "_normalize_freq" -> _normalize_freq(value)
                       [] OTHER -> _normalize_phon(value)
           /\ fn' = f
           /\ locals' = [value |-> value]
    /\ UNCHANGED <<completions, assistant, lock, stdin, stdout, proc, thread>>

\* A direct call of _extract_label_by_lexicon.
ExtractLabelByLexicon ==
    /\ fn = "none"
    /\ completions = <<>>
    /\ \E call \in LexiconCalls :
           /\ ret' = _extract_label_by_lexicon(call.en_text, call.lexicon)
           /\ locals' = call
    /\ fn' = "_extract_label_by_lexicon"
    /\ UNCHANGED <<completions, assistant, lock, stdin, stdout, proc, thread>>

\* A direct call of recall_at_k.
RecallAtK ==
    /\ fn = "none"
    /\ completions = <<>>
    /\ \E call \in RankingInputs, k \in 0..MaxK :
           /\ ret' = recall_at_k(call.pred, call.gt, k)
           /\ locals' = [pred |-> call.pred, gt |-> call.gt, k |-> k]
    /\ fn' = "recall_at_k"
    /\ UNCHANGED <<completions, assistant, lock, stdin, stdout, proc, thread>>

\* A direct call of ndcg_at_k.
NdcgAtK ==
    /\ fn = "none"
    /\ completions = <<>>
    /\ \E call \in RankingInputs, k \in 0..MaxK :
           /\ ret' = ndcg_at_k(call.pred, call.gt, k)
           /\ locals' = [pred |-> call.pred, gt |-> call.gt, k |-> k]
    /\ fn' = "ndcg_at_k"
    /\ UNCHANGED <<completions, assistant, lock, stdin, stdout, proc, thread>>

\* A direct call of average_precision.
AveragePrecision ==
    /\ fn = "none"
    /\ completions = <<>>
    /\ \E call \in RankingInputs :
           /\ ret' = average_precision(call.pred, call.gt)
           /\ locals' = call
    /\ fn' = "average_precision"
    /\ UNCHANGED <<completions, assistant, lock, stdin, stdout, proc, thread>>

\* A direct call of mean_average_precision on up to MaxBatch samples.
MeanAveragePrecision ==
    /\ fn = "none"
    /\ completions = <<>>
    /\ \E n \in 0..MaxBatch :
           \E calls \in [1..n -> {c \in RankingInputs :
                                     /\ c.pred \in {<<>>, <<3, 1>>, <<1, 2, 3>>}
                                     /\ c.gt \in {<<>>, <<1>>, <<1, 2>>}}] :
               /\ ret' = mean_average_precision([i \in 1..n |-> calls[i].pred],
                                                [i \in 1..n |-> calls[i].gt])
               /\ locals' = [preds |-> [i \in 1..n |-> calls[i].pred],
                             gts   |-> [i \in 1..n |-> calls[i].gt]]
    /\ fn' = "mean_average_precision"
    /\ UNCHANGED <<completions, assistant, lock, stdin, stdout, proc, thread>>

\* A direct call of _bucket.
Bucket ==
    /\ fn = "none"
    /\ completions = <<>>
    /\ \E call \in BucketInputs :
           /\ ret' = PyOk(_bucket(call.gt, call.pred))
           /\ locals' = call
    /\ fn' = "_bucket"
    /\ UNCHANGED <<completions, assistant, lock, stdin, stdout, proc, thread>>

(***************************************************************************)
(* metrics/eval_prompt2_reward_json.py: caption scores.                    *)
(***************************************************************************)

\* parse_args: the value of args.strict_caption_metrics for a command line.
\* Both flags store into the same destination, the later one wins, and the
\* default is True.
parse_args(argv) ==
    LET RECURSIVE Scan(_, _)
        Scan(j, strict) ==
            IF j > Len(argv) THEN strict
            ELSE Scan(j + 1, CASE argv[j] = "--strict-caption-metrics" -> TRUE
                               [] argv[j] = "--no-strict-caption-metrics" -> FALSE
                               [] OTHER -> strict)
    IN Scan(1, TRUE)

\* _caption_scores(gt_caps, pred_caps, strict).  env holds what each scorer
\* does when it is called: PyOk(score) or an exception.  The result is the
\* returned dictionary (or the exception) and the scorers called, in order.
_caption_scores(gt_caps, env, strict) ==
    LET scores == [ROUGE_L |-> PyNone, METEOR |-> PyNone, BERTScore_F1 |-> PyNone]
        first_calls == IF Raised(env.rouge_l_score) THEN <<"rouge_l_score">>
                       ELSE <<"rouge_l_score", "meteor_score">>
        first_failed == Raised(env.rouge_l_score) \/ Raised(env.meteor_score)
        after_first == IF first_failed THEN scores
                       ELSE [scores EXCEPT !.ROUGE_L = env.rouge_l_score,
                                           !.METEOR = env.meteor_score]
    IN IF gt_caps = <<>> THEN [ret |-> PyOk(scores), calls |-> <<>>]
       ELSE IF first_failed /\ strict
       THEN [ret |-> PyRaise("RuntimeError"), calls |-> first_calls]
       ELSE IF Raised(env.bert_score)
       THEN [ret |-> IF strict THEN PyRaise("RuntimeError") ELSE PyOk(after_first),
             calls |-> Append(first_calls, "bert_score")]
       ELSE [ret |-> PyOk([after_first EXCEPT !.BERTScore_F1 = env.bert_score]),
             calls |-> Append(first_calls, "bert_score")]

\* A call of _caption_scores as main makes it: strict comes from the command
\* line; each scorer returns a score or raises.
CaptionScores ==
    /\ fn = "none"
    /\ completions = <<>>
    /\ \E argv \in {<<>>, <<"--no-strict-caption-metrics">>,
                    <<"--no-strict-caption-metrics", "--strict-caption-metrics">>,
                    <<"--strict-caption-metrics", "--no-strict-caption-metrics">>},
          gt_caps \in {<<>>, <<"low vowel">>, <<"low vowel", "a stop">>},
          env \in [rouge_l_score : {PyOk(FDec(1, 2)), PyRaise("ValueError")},
                   meteor_score : {PyOk(FDec(1, 4)), PyRaise("LookupError")},
                   bert_score : {PyOk(FDec(3, 4)), PyRaise("ImportError")}] :
           LET strict == parse_args(argv)
               out == _caption_scores(gt_caps, env, strict)
           IN /\ ret' = out.ret
              /\ locals' = [argv |-> argv, strict |-> strict, gt_caps |-> gt_caps,
                            env |-> env, calls |-> out.calls]
    /\ fn' = "_caption_scores"
    /\ UNCHANGED <<completions, assistant, lock, stdin, stdout, proc, thread>>

\* ------------------------------------------------------------------------
\* build_multiturn_csv.py and metrics/eval_prompt2_reward_json.py: the
\* prompt2_target of a sample, as built and as read back.
\* ------------------------------------------------------------------------

\* _build_prompt2_target for one sample: region_lookup holds the sample's rows
\* of the region table and explanation_files the texts of the sample's
\* <rid>.txt files, both as dicts keyed by the region ID.
_build_prompt2_target(region_ids, region_lookup, explanation_files) ==
    LET Part(idx, rid, info) ==
            <<"C">> \o PyStr(idx) \o <<"=">> \o PyStr(rid)
                \o <<",", "T", "=">> \o info.T
                \o <<",", "F", "=">> \o info.F
                \o <<",", "P", "=">> \o info.P
                \o <<",", "E", "n", "=">> \o DictGet(explanation_files, rid, <<>>)
        RECURSIVE Join(_)
        Join(idx) ==
            IF idx > Len(region_ids) THEN <<>>
            ELSE (IF idx = 1 THEN <<>> ELSE <<";">>)
                     \o Part(idx, region_ids[idx], DictGet(region_lookup, region_ids[idx], <<>>))
                     \o Join(idx + 1)
    IN  IF \E idx \in 1..Len(region_ids) :
               \/ ~DictHas(region_lookup, region_ids[idx])
               \/ ~DictHas(explanation_files, region_ids[idx])
        THEN PyNone
        ELSE PyOk(Join(1))

\* _normalize_gt_prompt2_target.  ChunkMatch is re.match of line 71 on one
\* chunk (IGNORECASE, DOTALL): the groups are fixed by the first "=" of each
\* key and the next comma after it, each T, F, P value holding at least one
\* character.
_normalize_gt_prompt2_target(prompt2_target) ==
    LET ChunkMatch(ch) ==
            LET n == Len(ch)
                Sk(i) == FirstNotIn(ch, i, n, Spaces)
                Is(i, S) == i >= 1 /\ i <= n /\ ch[i] \in S
                \* the "=" of "\s*K\s*=" after the comma at c, or 0
                KeyEq(c, S) ==
                    LET At(k) == IF Is(k, S) THEN (LET Eq(e) == IF Is(e, {"="}) THEN e ELSE 0
                                                   IN  Eq(Sk(k + 1)))
                                 ELSE 0
                    IN  IF c = 0 THEN 0 ELSE At(Sk(c + 1))
                \* the comma that ends "\s*([^,]+)\s*," after the "=" at e, or 0
                Comma(e) ==
                    LET At(c) == IF c <= n /\ c > e + 1 THEN c ELSE 0
                    IN  IF e = 0 THEN 0 ELSE At(FirstIn(ch, e + 1, n, {","}))
                \* the "=" of "^C\d+\s*=" after the digits that end before d, or 0
                Eq0(d) == LET At(e) == IF Is(e, {"="}) THEN e ELSE 0
                          IN  IF Is(1, {"C", "c"}) /\ d > 2 THEN At(Sk(d)) ELSE 0
                \* the "=" of "\s*En\s*=" after the comma at c3, or 0
                EqEn(c3) ==
                    LET At(k) == IF Is(k, {"E", "e"}) /\ Is(k + 1, {"N", "n"})
                                 THEN (LET Eq(e) == IF Is(e, {"="}) THEN e ELSE 0
                                       IN  Eq(Sk(k + 2)))
                                 ELSE 0
                    IN  IF c3 = 0 THEN 0 ELSE At(Sk(c3 + 1))
                Groups(a, b, eT, c1, eF, c2, eP, c3, eEn) ==
                    IF eEn = 0 THEN NoMatch
                    ELSE [ok |-> TRUE,
                          groups |-> <<SubSeq(ch, a, b - 1), SubSeq(ch, eT + 1, c1 - 1),
                                       SubSeq(ch, eF + 1, c2 - 1), SubSeq(ch, eP + 1, c3 - 1),
                                       SubSeq(ch, Sk(eEn + 1), n)>>]
                AfterEP(a, b, eT, c1, eF, c2, eP, c3) ==
                    Groups(a, b, eT, c1, eF, c2, eP, c3, EqEn(c3))
                AfterC2(a, b, eT, c1, eF, c2, eP) == AfterEP(a, b, eT, c1, eF, c2, eP, Comma(eP))
                AfterEF(a, b, eT, c1, eF, c2) == AfterC2(a, b, eT, c1, eF, c2, KeyEq(c2, {"P", "p"}))
                AfterC1(a, b, eT, c1, eF) == AfterEF(a, b, eT, c1, eF, Comma(eF))
                AfterET(a, b, eT, c1) == AfterC1(a, b, eT, c1, KeyEq(c1, {"F", "f"}))
                AfterC0(a, b, eT) == AfterET(a, b, eT, Comma(eT))
                \* the comma after "\s*(\d+)\s*", the digits being ch[a..b-1]
                AfterB(e0, a, b, c) ==
                    AfterC0(a, b, KeyEq(IF e0 # 0 /\ b > a /\ Is(c, {","}) THEN c ELSE 0,
                                        {"T", "t"}))
                AfterA(e0, a, b) == AfterB(e0, a, b, Sk(b))
                AfterE0(e0, a) == AfterA(e0, a, FirstNotIn(ch, a, n, Digits))
                After0(e0) == AfterE0(e0, Sk(e0 + 1))
            IN  After0(Eq0(FirstNotIn(ch, 2, n, Digits)))
        Row(g) ==
            <<"(">> \o Strip(g[1]) \o <<",", " ">> \o Strip(g[2]) \o <<",", " ">> \o Strip(g[3])
                \o <<",", " ">> \o Strip(g[4]) \o <<",", " ">> \o Strip(g[5]) \o <<")">>
        RECURSIVE JoinRows(_, _)
        JoinRows(ms, k) ==
            IF k > Len(ms) THEN <<>>
            ELSE (IF k = 1 THEN <<>> ELSE <<"\n">>) \o Row(ms[k].groups) \o JoinRows(ms, k + 1)
        Rows(ms) ==
            IF \E k \in 1..Len(ms) : ~ms[k].ok THEN PyNone
            ELSE IF Len(ms) # 3 THEN PyNone
            ELSE PyOk(JoinRows(ms, 1))
        Chunks(pieces, kept) == Rows([j \in 1..Len(kept) |-> ChunkMatch(pieces[kept[j]])])
        Pieces(text, cuts) ==
            LET pieces == [k \in 1..(Len(cuts) - 1) |->
                              Strip(SubSeq(text, cuts[k] + 1, cuts[k + 1] - 1))]
            IN  Chunks(pieces, SortedSeq({k \in 1..Len(pieces) : pieces[k] # <<>>}))
        Text(text) ==
            IF text = <<>> THEN PyNone
            ELSE Pieces(text, <<0>> \o SortedSeq({i \in 1..Len(text) : text[i] = ";"})
                                  \o <<Len(text) + 1>>)
    IN  Text(Strip(prompt2_target))

\* _parse_regions_loose: _PRED_TUPLE_RE is _REGION_PATTERN with an optional
\* "C" or "c" before the digits; the result is the dict of the records by Cn,
\* the first record of a Cn kept.
_parse_regions_loose(text) ==
    LET MatchAt(i) ==
            LET At(a0) == RegionMatchAt(text, IF a0 <= Len(text) /\ text[a0] \in {"C", "c"}
                                              THEN a0 ELSE i)
            IN  At(FirstNotIn(text, i + 1, Len(text), Spaces))
        RECURSIVE FindAllFrom(_, _)
        FindAllFrom(pos, out) ==
            LET Resume(m) == FindAllFrom(m.end + 1, Append(out, m.groups))
                \* found: the matches at the "(" from pos on, each with its start
                From(found) ==
                    IF found = {} THEN out
                    ELSE Resume((CHOOSE p \in found : \A q \in found : p[1] <= q[1])[2])
            IN  From({p \in {<<i, MatchAt(i)>> : i \in {j \in pos..Len(text) : text[j] = "("}} :
                         p[2].ok})
        RECURSIVE Loop(_, _, _)
        Loop(matches, k, out) ==
            IF k > Len(matches) THEN PyOk(out)
            ELSE LET Put(cn) ==
                         IF Raised(cn) THEN cn
                         ELSE IF DictHas(out, PyStr(cn.val)) THEN Loop(matches, k + 1, out)
                         ELSE Loop(matches, k + 1,
                                   Append(out, [key |-> PyStr(cn.val),
                                                value |-> [Cn |-> PyStr(cn.val),
                                                           T |-> _normalize_time(matches[k][2]),
                                                           F |-> _normalize_freq(matches[k][3]),
                                                           P |-> _normalize_phon(matches[k][4]),
                                                           En |-> Strip(matches[k][5])]]))
                 IN  Put(PyInt(matches[k][1]))
    IN  Loop(FindAllFrom(1, <<>>), 1, <<>>)

\* The region table of one sample (region_id -> T, F, P_type), region 9 without
\* a row, and the explanation texts a <rid>.txt file may hold.
RegionTable == <<
    [key |-> 1, value |-> [T |-> <<"s", "p", "e", "e", "c", "h">>, F |-> <<"l", "o", "w">>, P |-> <<"v", "o", "w", "e", "l">>]],
    [key |-> 2, value |-> [T |-> <<"n", "o", "n", "-", "s", "p", "e", "e", "c", "h">>, F |-> <<"m", "i", "d">>, P |-> <<"u", "n", "v", "o", "i", "c", "e", "d">>]],
    [key |-> 3, value |-> [T |-> <<"s", "p", "e", "e", "c", "h">>, F |-> <<"h", "i", "g", "h">>, P |-> <<"c", "o", "n", "s", "o", "n", "a", "n", "t">>]],
    [key |-> 16, value |-> [T |-> <<"N", "o", "n", "-", "S", "p", "e", "e", "c", "h">>, F |-> <<"H", "i", "g", "h">>, P |-> <<"C", "o", "n", "s", "o", "n", "a", "n", "t">>]] >>

ExplanationTexts ==
    <<<<"l", "o", "w", " ", "v", "o", "w", "e", "l", " ", "e", "n", "e", "r", "g", "y">>,
      <<"a", " ", "v", "o", "i", "c", "e", "d", " ", "s", "t", "o", "p", "\n">>,
      <<"l", "o", "w", " ", "b", "a", "n", "d", ";", " ", "t", "h", "e", "n", " ", "n", "o", "i", "s", "e">>,
      <<"a", " ", "(", "s", "h", "o", "r", "t", ")", " ", "b", "u", "r", "s", "t">>,
      <<>>>>

\* The builder's call for one row of the input CSV with 3 distinct region IDs:
\* every region's explanation file holds one of the texts (region 3 may have
\* no file).
BuildPrompt2Target ==
    /\ fn = "none"
    /\ completions = <<>>
    /\ \E region_ids \in {<<1, 2, 3>>, <<16, 2, 1>>, <<2, 9, 1>>},
          en \in [1..3 -> 1..Len(ExplanationTexts)],
          has3 \in BOOLEAN :
           LET explanation_files ==
                   [k \in 1..(IF has3 THEN 3 ELSE 2) |->
                       [key |-> region_ids[k], value |-> ExplanationTexts[en[k]]]]
           IN  /\ ~has3 => en[3] = 1
               /\ ret' = _build_prompt2_target(region_ids, RegionTable, explanation_files)
               /\ locals' = [region_ids |-> region_ids, region_lookup |-> RegionTable,
                             explanation_files |-> explanation_files]
    /\ fn' = "_build_prompt2_target"
    /\ UNCHANGED <<completions, assistant, lock, stdin, stdout, proc, thread>>

\* eval_prompt2_reward_json.main, lines 186-204, on the record of a built
\* sample: the target is normalized and, when accepted, parsed by Cn.
EvalGtTarget ==
    /\ fn = "_build_prompt2_target"
    /\ ret.kind = "ok"
    /\ \E gt_norm \in {_normalize_gt_prompt2_target(ret.val)} :
           /\ ret' = IF gt_norm.kind = "None" THEN PyNone
                     ELSE _parse_regions_loose(gt_norm.val)
           /\ locals' = [region_ids |-> locals.region_ids,
                         region_lookup |-> locals.region_lookup,
                         explanation_files |-> locals.explanation_files,
                         prompt2_target |-> ret.val, gt_norm |-> gt_norm]
    /\ fn' = "_normalize_gt_prompt2_target"
    /\ UNCHANGED <<completions, assistant, lock, stdin, stdout, proc, thread>>

\* ------------------------------------------------------------------------
\* metrics/eval_sft_baseline_localization.py and
\* metrics/eval_baseline_strongvlm_localization.py
\* ------------------------------------------------------------------------

\* [int(x) for x in re.findall(r"-?\d+", text)]: the maximal digit runs, each
\* with the "-" in front of it.
_extract_ints(text) ==
    LET Signed(toks, starts) ==
            IF \E k \in 1..Len(toks) : Raised(PyInt(toks[k])) THEN PyRaise("ValueError")
            ELSE PyOk([k \in 1..Len(toks) |->
                          IF starts[k] > 1 /\ text[starts[k] - 1] = "-"
                          THEN 0 - PyInt(toks[k]).val ELSE PyInt(toks[k]).val])
    IN  Signed(FindAllDigits(text),
               SortedSeq({i \in 1..Len(text) :
                            IsDigit(text[i]) /\ (i = 1 \/ ~IsDigit(text[i - 1]))}))

_first_k_unique(nums, k) ==
    LET RECURSIVE Loop(_, _)
        Loop(j, out) ==
            IF j > Len(nums) THEN out
            ELSE IF nums[j] \in SeqToSet(out) THEN Loop(j + 1, out)
            ELSE IF Len(out) + 1 = k THEN Append(out, nums[j])
            ELSE Loop(j + 1, Append(out, nums[j]))
    IN  Loop(1, <<>>)

\* _pad_missing_with_impossible filling from 16.
PadFromSixteen(pred, target_len) ==
    LET RECURSIVE Loop(_, _)
        Loop(out, filler) ==
            IF Len(out) >= target_len THEN out
            ELSE IF filler \notin SeqToSet(out) THEN Loop(Append(out, filler), filler + 1)
            ELSE Loop(out, filler + 1)
    IN  IF Len(pred) >= target_len THEN pred ELSE Loop(pred, 16)

\* _pad_missing_with_impossible: filler IDs from 99 upward, those already in
\* out passed over.
_pad_missing_with_impossible(pred, target_len) ==
    LET RECURSIVE Loop(_, _)
        Loop(out, filler) ==
            IF Len(out) >= target_len THEN out
            ELSE IF filler \notin SeqToSet(out) THEN Loop(Append(out, filler), filler + 1)
            ELSE Loop(out, filler + 1)
    IN  IF Len(pred) >= target_len THEN pred ELSE Loop(pred, 99)

_safe_pred_for_at_k(pred, k) ==
    IF Len(pred) >= k THEN pred
    ELSE pred \o [j \in 1..(k - Len(pred)) |-> 0 - 10 ^ 9]

\* _load_records: the records of the files json.loads reads, in order; a file
\* that cannot be read or parsed is left out.
_load_records(files) ==
    LET kept == SortedSeq({i \in 1..Len(files) : files[i].readable})
    IN  [j \in 1..Len(kept) |-> files[kept[j]].rec]

\* _build_preds_gts of eval_sft_baseline_localization.
_build_preds_gts(records, normalize_to_3_unique) ==
    LET RECURSIVE Loop(_, _, _, _)
        Loop(i, preds, gts, stats) ==
            IF i > Len(records) THEN PyOk([preds |-> preds, gts |-> gts, stats |-> stats])
            ELSE LET total == [stats EXCEPT !.total_records = @ + 1]
                     Pred(gt, raw) ==
                         IF Raised(raw) THEN raw
                         ELSE LET pred == IF normalize_to_3_unique
                                          THEN _first_k_unique(raw.val, 3) ELSE raw.val
                              IN  IF pred = <<>>
                                  THEN Loop(i + 1, preds, gts,
                                            [total EXCEPT !.skipped_missing_pred = @ + 1])
                                  ELSE Loop(i + 1, Append(preds, pred), Append(gts, gt),
                                            [total EXCEPT !.used_records = @ + 1])
                     Gt(gt) ==
                         IF Raised(gt) THEN gt
                         ELSE IF gt.val = <<>>
                         THEN Loop(i + 1, preds, gts, [total EXCEPT !.skipped_missing_gt = @ + 1])
                         ELSE Pred(gt.val, _extract_ints(DictGet(records[i], "response", <<>>)))
                 IN  Gt(_extract_ints(DictGet(records[i], "gt_regions", <<>>)))
    IN  Loop(1, <<>>, <<>>, [total_records |-> 0, used_records |-> 0,
                             skipped_missing_gt |-> 0, skipped_missing_pred |-> 0])

\* _build_preds_gts of eval_baseline_strongvlm_localization.
StrongVlmBuildPredsGts(records) ==
    LET RECURSIVE Loop(_, _, _, _)
        Loop(i, preds, gts, stats) ==
            IF i > Len(records) THEN PyOk([preds |-> preds, gts |-> gts, stats |-> stats])
            ELSE LET total == [stats EXCEPT !.total_records = @ + 1]
                     Pred(gt, raw) ==
                         IF Raised(raw) THEN raw
                         ELSE IF Len(raw.val) < 3
                         THEN Loop(i + 1, Append(preds, _pad_missing_with_impossible(raw.val, 3)),
                                   Append(gts, gt),
                                   [total EXCEPT !.padded_missing_to_3 = @ + 1,
                                                 !.used_records = @ + 1])
                         ELSE Loop(i + 1, Append(preds, raw.val), Append(gts, gt),
                                   [total EXCEPT !.used_records = @ + 1])
                     Gt(gt) ==
                         IF Raised(gt) THEN gt
                         ELSE IF gt.val = <<>>
                         THEN Loop(i + 1, preds, gts, [total EXCEPT !.skipped_missing_gt = @ + 1])
                         ELSE Pred(gt.val, _extract_ints(DictGet(records[i], "response", <<>>)))
                 IN  Gt(_extract_ints(DictGet(records[i], "gt_regions", <<>>)))
    IN  Loop(1, <<>>, <<>>, [total_records |-> 0, used_records |-> 0,
                             skipped_missing_gt |-> 0, padded_missing_to_3 |-> 0])

\* _compute_metrics (the same function in both drivers): the means are
\* sum(vals) / len(vals), added left to right from 0.
_compute_metrics(preds, gts, k) ==
    LET n == Len(preds)
        RECURSIVE Sum(_, _, _)
        Sum(vals, i, acc) ==
            IF i > n THEN PyOk(FDiv(acc, FInt(n)))
            ELSE IF Raised(vals[i]) THEN vals[i]
            ELSE Sum(vals, i + 1, FAdd(acc, vals[i].val))
        Out(recall, ndcg, mean_ap, map) ==
            IF Raised(recall) THEN recall
            ELSE IF Raised(ndcg) THEN ndcg
            ELSE PyOk([num_samples |-> n, recall |-> recall.val, ndcg |-> ndcg.val,
                       mean_ap |-> mean_ap.val, map |-> map.val])
    IN  IF n = 0
        THEN PyOk([num_samples |-> 0, recall |-> F_0_0, ndcg |-> F_0_0,
                   mean_ap |-> F_0_0, map |-> F_0_0])
        ELSE Out(Sum([i \in 1..n |-> recall_at_k(_safe_pred_for_at_k(preds[i], k), gts[i], k)],
                     1, F_0_0),
                 Sum([i \in 1..n |-> ndcg_at_k(_safe_pred_for_at_k(preds[i], k), gts[i], k)],
                     1, F_0_0),
                 Sum([i \in 1..n |-> average_precision(preds[i], gts[i])], 1, F_0_0),
                 mean_average_precision(preds, gts))

\* ------------------------------------------------------------------------
\* metrics/eval_grpo2_synth_pred_mix.py and build_grpo2_synth_pred_json.py:
\* region lists in conversations, and bucket weights.
\* ------------------------------------------------------------------------

\* LIST_RE.search(text): the leftmost "[" followed by three integers with
\* commas between them and a "]"; start and end are the span of the match.
LIST_RE_search(text) ==
    LET n == Len(text)
        Sk(i) == FirstNotIn(text, i, n, Spaces)
        \* the index after "-?\d+" at p, or 0
        IntEnd(p) ==
            IF p = 0 \/ p > n THEN 0
            ELSE LET d == IF text[p] = "-" THEN p + 1 ELSE p
                 IN  IF FirstNotIn(text, d, n, Digits) > d
                     THEN FirstNotIn(text, d, n, Digits) ELSE 0
        \* the index after "\s*,\s*-?\d+" at q, or 0
        Next3(q) ==
            IF q = 0 \/ Sk(q) > n THEN 0
            ELSE IF text[Sk(q)] # "," THEN 0
            ELSE IntEnd(Sk(Sk(q) + 1))
        \* the index of the closing "]" of a match at the "[" of i, or 0
        Close(i) ==
            LET q == Next3(Next3(IntEnd(Sk(i + 1))))
            IN  IF q = 0 \/ Sk(q) > n THEN 0
                ELSE IF text[Sk(q)] = "]" THEN Sk(q) ELSE 0
        At(starts) ==
            IF starts = {} THEN NoMatch
            ELSE [ok |-> TRUE, start |-> MinOf(starts), end |-> Close(MinOf(starts))]
    IN  At({i \in 1..n : text[i] = "[" /\ Close(i) # 0})

_extract_list_from_text(text) ==
    LET Nums(m) ==
            IF ~m.ok THEN PyNone
            ELSE LET Three(nums) ==
                         IF Raised(nums) THEN nums
                         ELSE IF Len(nums.val) # 3 THEN PyNone ELSE nums
                 IN  Three(_extract_ints(SubSeq(text, m.start, m.end)))
    IN  Nums(LIST_RE_search(text))

\* _extract_list_from_record: the list of the last human turn that holds one.
\* A record is the list of its turns, each with the fields from and value.
_extract_list_from_record(convs) ==
    LET RECURSIVE Loop(_)
        Loop(i) ==
            IF i < 1 THEN PyNone
            ELSE IF Lower(Strip(convs[i].from)) # <<"h", "u", "m", "a", "n">> THEN Loop(i - 1)
            ELSE LET Arr(arr) == IF arr.kind = "None" THEN Loop(i - 1) ELSE arr
                 IN  Arr(_extract_list_from_text(convs[i].value))
    IN  Loop(Len(convs))

\* The loop shared by parse_mix and _parse_target_weights: the dict of the
\* "bucket:weight" items of spec in insertion order, or the ValueError of an
\* item without ":" or of float() of its weight.  The weights handled are
\* integer literals with an optional sign, held as integers (float() of them
\* and their sums are exact).
WeightItems(spec) ==
    LET cuts == <<0>> \o SortedSeq({i \in 1..Len(spec) : spec[i] = ","}) \o <<Len(spec) + 1>>
        Item(k) == Strip(SubSeq(spec, cuts[k] + 1, cuts[k + 1] - 1))
        Float(v) ==
            LET d == IF v # <<>> /\ v[1] \in {"-", "+"} THEN SubSeq(v, 2, Len(v)) ELSE v
            IN  IF d = <<>> \/ \E j \in 1..Len(d) : d[j] \notin AsciiDigits
                THEN PyRaise("ValueError")
                ELSE PyOk(IF v[1] = "-" THEN 0 - DecValue(d) ELSE DecValue(d))
        Put(out, key, value) ==
            IF DictHas(out, key)
            THEN [j \in 1..Len(out) |->
                     IF out[j].key = key THEN [key |-> key, value |-> value] ELSE out[j]]
            ELSE Append(out, [key |-> key, value |-> value])
        RECURSIVE Loop(_, _)
        Loop(k, out) ==
            IF k >= Len(cuts) THEN PyOk(out)
            ELSE IF Item(k) = <<>> THEN Loop(k + 1, out)
            ELSE IF FirstIn(Item(k), 1, Len(Item(k)), {":"}) > Len(Item(k))
            THEN PyRaise("ValueError")
            ELSE LET c == FirstIn(Item(k), 1, Len(Item(k)), {":"})
                     Value(v) ==
                         IF Raised(v) THEN v
                         ELSE Loop(k + 1, Put(out, Strip(SubSeq(Item(k), 1, c - 1)), v.val))
                 IN  Value(Float(Strip(SubSeq(Item(k), c + 1, Len(Item(k))))))
    IN  Loop(1, <<>>)

\* sum(out.values())
WeightSum(out) ==
    LET RECURSIVE Sum(_)
        Sum(j) == IF j > Len(out) THEN 0 ELSE out[j].value + Sum(j + 1)
    IN  Sum(1)

\* parse_mix without its test of the sum.
ParseMixAnySum(spec) ==
    LET FloatWeights(out) ==
            [j \in 1..Len(out) |->
                [key |-> out[j].key,
                 value |-> [negative |-> out[j].value < 0,
                            abs |-> FInt(IF out[j].value < 0 THEN 0 - out[j].value
                                         ELSE out[j].value)]]]
        Check(out) ==
            IF Raised(out) THEN out
            ELSE IF out.val = <<>> THEN PyRaise("ValueError")
            ELSE PyOk(FloatWeights(out.val))
    IN  Check(WeightItems(spec))

\* parse_mix of build_grpo2_synth_pred_json: the weights are floats, each held
\* as its sign and its magnitude.
parse_mix(spec) ==
    LET FloatWeights(out) ==
            [j \in 1..Len(out) |->
                [key |-> out[j].key,
                 value |-> [negative |-> out[j].value < 0,
                            abs |-> FInt(IF out[j].value < 0 THEN 0 - out[j].value
                                         ELSE out[j].value)]]]
        Check(out) ==
            IF Raised(out) THEN out
            ELSE IF out.val = <<>> \/ WeightSum(out.val) <= 0 THEN PyRaise("ValueError")
            ELSE PyOk(FloatWeights(out.val))
    IN  Check(WeightItems(spec))

\* _parse_target_weights of eval_grpo2_synth_pred_mix: (v / s) * 100.0 of each
\* weight, as its sign and its magnitude.
_parse_target_weights(spec) ==
    LET Abs(v) == IF v < 0 THEN 0 - v ELSE v
        Check(out) ==
            IF Raised(out) THEN out
            ELSE IF WeightSum(out.val) <= 0 THEN PyRaise("ValueError")
            ELSE PyOk([j \in 1..Len(out.val) |->
                          [key |-> out.val[j].key,
                           value |-> [negative |-> out.val[j].value < 0,
                                      abs |-> FMul(FDiv(FInt(Abs(out.val[j].value)),
                                                        FInt(WeightSum(out.val))),
                                                   FInt(100))]]])
    IN  Check(WeightItems(spec))

\* A model directory holds up to MaxFiles files <sample>/json, here
\* consecutive files of ModelDirFiles (taken as a ring): records with and
\* without gt_regions and response, repeated and surplus predicted IDs, and a
\* file json.loads cannot read.
MaxFiles == 2

ModelDirFiles == <<
    [readable |-> TRUE, rec |-> <<[key |-> "gt_regions", value |-> <<"[", "1", ",", " ", "2", ",", " ", "3", "]">>], [key |-> "response", value |-> <<"[", "2", ",", " ", "1", ",", " ", "3", "]">>]>>],
    [readable |-> FALSE, rec |-> <<>>],
    [readable |-> TRUE, rec |-> <<[key |-> "gt_regions", value |-> <<"[", "1", ",", " ", "2", ",", " ", "3", "]">>], [key |-> "response", value |-> <<"1", ",", " ", "1", ",", " ", "2", ",", " ", "1">>]>>],
    [readable |-> TRUE, rec |-> <<[key |-> "gt_regions", value |-> <<"[", "1", ",", " ", "2", ",", " ", "3", "]">>], [key |-> "response", value |-> <<"n", "o", "n", "e">>]>>],
    [readable |-> TRUE, rec |-> <<[key |-> "response", value |-> <<"[", "1", ",", " ", "2", ",", " ", "3", "]">>]>>],
    [readable |-> TRUE, rec |-> <<[key |-> "gt_regions", value |-> <<"[", "2", ",", " ", "1", "]">>], [key |-> "response", value |-> <<"2", " ", "1", " ", "2">>]>>],
    [readable |-> TRUE, rec |-> <<[key |-> "gt_regions", value |-> <<"[", "3", ",", " ", "1", ",", " ", "2", "]">>], [key |-> "response", value |-> <<"r", "e", "g", "i", "o", "n", " ", "9", "9">>]>>] >>

ModelDirs ==
    {[i \in 1..n |-> ModelDirFiles[((first + i - 2) % Len(ModelDirFiles)) + 1]] :
        first \in 1..Len(ModelDirFiles), n \in 0..MaxFiles}

\* main of the two localization drivers for one model directory, with -k 3:
\* the SFT driver with and without the 3-unique normalization, and the
\* strong-VLM driver.
EvalLocalization ==
    /\ fn = "none"
    /\ completions = <<>>
    /\ \E driver \in {"first_3_unique_from_response", "none",
                      "extract_numbers_in_order_from_response_text"},
          dir \in ModelDirs :
               LET Out(files, built) ==
                       /\ ret' = IF Raised(built) THEN built
                                 ELSE LET Summary(metrics) ==
                                              IF Raised(metrics) THEN metrics
                                              ELSE PyOk([normalization |-> driver,
                                                         stats |-> built.val.stats,
                                                         metrics |-> metrics.val])
                                      IN  Summary(_compute_metrics(built.val.preds,
                                                                   built.val.gts, 3))
                       /\ locals' = [files |-> files, k |-> 3,
                                     preds |-> IF Raised(built) THEN <<>> ELSE built.val.preds,
                                     gts |-> IF Raised(built) THEN <<>> ELSE built.val.gts]
                   Load(files) ==
                       Out(files,
                           IF driver = "extract_numbers_in_order_from_response_text"
                           THEN StrongVlmBuildPredsGts(_load_records(files))
                           ELSE _build_preds_gts(_load_records(files),
                                                 driver = "first_3_unique_from_response"))
               IN  Load(dir)
    /\ fn' = "eval_localization"
    /\ UNCHANGED <<completions, assistant, lock, stdin, stdout, proc, thread>>

\* The samples of a GT JSON and of a synthetic pred JSON (records with an id
\* and their conversations), and the weight specifications of --mix and
\* --target-weights.
GtRecords == <<
    [id |-> 1, conversations |-> <<[from |-> <<"h", "u", "m", "a", "n">>, value |-> <<"L", "o", "o", "k", " ", "a", "t", " ", "t", "h", "e", " ", "i", "m", "a", "g", "e", ".">>], [from |-> <<"g", "p", "t">>, value |-> <<"[", "3", ",", " ", "2", ",", " ", "1", "]">>], [from |-> <<"h", "u", "m", "a", "n">>, value |-> <<"R", "e", "g", "i", "o", "n", "s", ":", " ", "[", "1", ",", " ", "2", ",", " ", "3", "]", ".", " ", "E", "x", "p", "l", "a", "i", "n", ".">>]>>],
    [id |-> 2, conversations |-> <<[from |-> <<"h", "u", "m", "a", "n">>, value |-> <<"r", "e", "g", "i", "o", "n", "s", " ", "4", ",", " ", "5", ",", " ", "6">>]>>],
    [id |-> 3, conversations |-> <<[from |-> <<"H", "u", "m", "a", "n", " ">>, value |-> <<"[", " ", "4", ",", "5", " ", ",", " ", "6", " ", "]">>]>>],
    [id |-> 4, conversations |-> <<[from |-> <<"h", "u", "m", "a", "n">>, value |-> <<"[", "1", ",", " ", "2", ",", " ", "3", "]">>]>>],
    [id |-> 5, conversations |-> <<[from |-> <<"h", "u", "m", "a", "n">>, value |-> <<"[", "7", ",", " ", "7", ",", " ", "8", "]">>]>>],
    [id |-> 6, conversations |-> <<[from |-> <<"g", "p", "t">>, value |-> <<"[", "1", ",", " ", "2", ",", " ", "3", "]">>]>>] >>

PredRecords == <<
    [id |-> 1, conversations |-> <<[from |-> <<"h", "u", "m", "a", "n">>, value |-> <<"R", "e", "g", "i", "o", "n", "s", ":", " ", "[", "1", ",", " ", "2", ",", " ", "3", "]", ".", " ", "E", "x", "p", "l", "a", "i", "n", ".">>]>>],
    [id |-> 2, conversations |-> <<[from |-> <<"h", "u", "m", "a", "n">>, value |-> <<"[", "4", ",", " ", "5", ",", " ", "6", "]">>]>>],
    [id |-> 3, conversations |-> <<[from |-> <<"h", "u", "m", "a", "n">>, value |-> <<"[", "4", ",", " ", "9", ",", " ", "5", "]">>]>>],
    [id |-> 4, conversations |-> <<[from |-> <<"g", "p", "t">>, value |-> <<"[", "1", ",", " ", "2", ",", " ", "3", "]">>], [from |-> <<"h", "u", "m", "a", "n">>, value |-> <<"[", "1", ",", " ", "2", "]">>]>>],
    [id |-> 5, conversations |-> <<[from |-> <<"h", "u", "m", "a", "n">>, value |-> <<"[", "7", ",", " ", "7", ",", " ", "7", "]", " ", "t", "h", "e", "n", " ", "[", "1", ",", " ", "2", ",", " ", "3", "]">>]>>],
    [id |-> 6, conversations |-> <<>>] >>

WeightSpecs == <<
    <<"w", "r", "o", "n", "g", "0", ":", "2", "0", ",", "o", "n", "e", "_", "n", "o", "t", "_", "o", "r", "d", "e", "r", ":", "2", "5", ",", "t", "w", "o", "_", "n", "o", "t", "_", "o", "r", "d", "e", "r", ":", "1", "5", ",", "t", "h", "r", "e", "e", "_", "n", "o", "t", "_", "o", "r", "d", "e", "r", ":", "1", "5", ",", "o", "n", "e", "_", "c", "o", "r", "r", "e", "c", "t", "_", "o", "r", "d", "e", "r", ":", "2", "0", ",", "t", "w", "o", "_", "c", "o", "r", "r", "e", "c", "t", "_", "o", "r", "d", "e", "r", ":", "1", "0", ",", "t", "h", "r", "e", "e", "_", "c", "o", "r", "r", "e", "c", "t", "_", "o", "r", "d", "e", "r", ":", "5">>,
    <<" ", "w", "r", "o", "n", "g", "0", " ", ":", " ", "2", " ", ",", " ", ",", "t", "h", "r", "e", "e", "_", "c", "o", "r", "r", "e", "c", "t", "_", "o", "r", "d", "e", "r", ":", "+", "1", ",">>,
    <<>>,
    <<"w", "r", "o", "n", "g", "0">>,
    <<"w", "r", "o", "n", "g", "0", ":", "x">>,
    <<"w", "r", "o", "n", "g", "0", ":", "0", ",", "o", "n", "e", "_", "n", "o", "t", "_", "o", "r", "d", "e", "r", ":", "0">>,
    <<"w", "r", "o", "n", "g", "0", ":", "-", "3", ",", "o", "n", "e", "_", "n", "o", "t", "_", "o", "r", "d", "e", "r", ":", "2">>,
    <<"w", "r", "o", "n", "g", "0", ":", "-", "1", ",", "o", "n", "e", "_", "n", "o", "t", "_", "o", "r", "d", "e", "r", ":", "3">>,
    <<"w", "r", "o", "n", "g", "0", ":", "1", ",", "o", "n", "e", "_", "n", "o", "t", "_", "o", "r", "d", "e", "r", ":", "1", ",", "w", "r", "o", "n", "g", "0", ":", "2">>,
    <<"w", "r", "o", "n", "g", "0", ":", "1", ":", "2">>,
    <<"w", "r", "o", "n", "g", "0", ":">>,
    <<"w", "r", "o", "n", "g", "0", ":", "3", ",", "o", "n", "e", "_", "n", "o", "t", "_", "o", "r", "d", "e", "r", ":", "1">>,
    <<"w", "r", "o", "n", "g", "0", ":", "1", ",", "o", "n", "e", "_", "n", "o", "t", "_", "o", "r", "d", "e", "r", ":", "1", ",", "t", "w", "o", "_", "n", "o", "t", "_", "o", "r", "d", "e", "r", ":", "1", ",", "t", "h", "r", "e", "e", "_", "n", "o", "t", "_", "o", "r", "d", "e", "r", ":", "1">> >>

\* main of eval_grpo2_synth_pred_mix with -k 3: gt_data and pred_data are up
\* to MaxFiles consecutive records of the two files (taken as rings), the pred
\* file starting at the same sample or one later.  The summary holds the
\* counts (as the list of the buckets of the used samples, one per sample), the
\* normalized target weights and the localization metrics;
\* actual_pct and actual_minus_target_pct are derived from the counts and left
\* out.
EvalGrpoMix ==
    /\ fn = "none"
    /\ completions = <<>>
    /\ \E first \in 1..Len(GtRecords), n \in 0..MaxFiles, shift \in {0, 1},
          w \in 1..Len(WeightSpecs) :
           LET Ring(recs, from, i) == recs[((from + i - 2) % Len(recs)) + 1]
           IN
           \E gt_data \in {[i \in 1..n |-> Ring(GtRecords, first, i)]},
              pred_data \in {[i \in 1..n |-> Ring(PredRecords, first + shift, i)]} :
           \E common_ids \in {SortedSeq({gt_data[i].id : i \in 1..n}
                                            \cap {pred_data[i].id : i \in 1..n})},
              gt_lists \in {[i \in 1..n |->
                                _extract_list_from_record(gt_data[i].conversations)]},
              pred_lists \in {[i \in 1..n |->
                                  _extract_list_from_record(pred_data[i].conversations)]} :
           LET ById(data, sid) == CHOOSE i \in 1..Len(data) : data[i].id = sid
               RECURSIVE Loop(_, _)
               Loop(j, st) ==
                   IF j > Len(common_ids) THEN st
                   ELSE LET Step(gt_list, pred_list) ==
                                IF gt_list.kind = "None"
                                THEN Loop(j + 1, [st EXCEPT !.bad_gt = @ + 1])
                                ELSE IF pred_list.kind = "None"
                                THEN Loop(j + 1, [st EXCEPT !.bad_pred = @ + 1])
                                ELSE Loop(j + 1,
                                          [st EXCEPT !.counts = Append(@, _bucket(gt_list.val, pred_list.val)),
                                                     !.preds = Append(@, _pad_missing_with_impossible(pred_list.val, 3)),
                                                     !.gts = Append(@, gt_list.val)])
                        IN  Step(gt_lists[ById(gt_data, common_ids[j])],
                                 pred_lists[ById(pred_data, common_ids[j])])
               Out(st, target_pct) ==
                   \E metrics \in {_compute_metrics(st.preds, st.gts, 3)} :
                   /\ ret' = IF Raised(target_pct) THEN target_pct
                             ELSE PyOk([num_gt |-> Len(gt_data), num_pred |-> Len(pred_data),
                                        num_common_ids |-> Len(common_ids),
                                        bad_gt_parse |-> st.bad_gt,
                                        bad_pred_parse |-> st.bad_pred,
                                        used_for_bucketing |-> Len(st.counts),
                                        counts |-> st.counts,
                                        target_pct_normalized |-> target_pct.val,
                                        baseline_localization_metrics |->
                                            metrics.val])
                   /\ locals' = [gt_data |-> gt_data, pred_data |-> pred_data,
                                 target_weights |-> WeightSpecs[w],
                                 preds |-> st.preds, gts |-> st.gts]
           IN  /\ shift = 1 => w = 1
               /\ Out(Loop(1, [bad_gt |-> 0, bad_pred |-> 0, counts |-> <<>>,
                               preds |-> <<>>, gts |-> <<>>]),
                      _parse_target_weights(WeightSpecs[w]))
    /\ fn' = "eval_grpo2_synth_pred_mix"
    /\ UNCHANGED <<completions, assistant, lock, stdin, stdout, proc, thread>>

\* _normalize_pred_response: re.sub of "(", an optional run of spaces, "C" or
\* "c", spaces, digits, spaces and "," by "(", the digits and ",".
_normalize_pred_response(text) ==
    LET n == Len(text)
        Sk(i) == FirstNotIn(text, i, n, Spaces)
        \* the index of the "," that ends a match at the "(" of i, or 0
        Comma(i) ==
            LET c == Sk(i + 1)
                a == Sk(c + 1)
                b == FirstNotIn(text, a, n, Digits)
            IN  IF c > n THEN 0
                ELSE IF text[c] \notin {"C", "c"} \/ b = a \/ Sk(b) > n THEN 0
                ELSE IF text[Sk(b)] = "," THEN Sk(b) ELSE 0
        Digs(i) ==
            SubSeq(text, Sk(Sk(i + 1) + 1), FirstNotIn(text, Sk(Sk(i + 1) + 1), n, Digits) - 1)
        Starts == {i \in 1..n : text[i] = "(" /\ Comma(i) # 0}
        RECURSIVE Sub(_)
        Sub(i) ==
            LET later == {j \in Starts : j >= i}
                Rep(j) == SubSeq(text, i, j) \o Digs(j) \o <<",">> \o Sub(Comma(j) + 1)
            IN  IF later = {} THEN SubSeq(text, i, n)
                ELSE Rep(CHOOSE j \in later : \A k \in later : j <= k)
    IN  Sub(1)

\* The per-sample json files under the input root of eval_prompt2_reward_json.
SampleFiles == <<
    [readable |-> TRUE, rec |-> <<[key |-> "prompt2_target", value |-> <<"C", "1", "=", "1", ",", "T", "=", "s", "p", "e", "e", "c", "h", ",", "F", "=", "l", "o", "w", ",", "P", "=", "v", "o", "w", "e", "l", ",", "E", "n", "=", "l", "o", "w", " ", "v", "o", "w", "e", "l", ";", "C", "2", "=", "2", ",", "T", "=", "n", "o", "n", "-", "s", "p", "e", "e", "c", "h", ",", "F", "=", "m", "i", "d", ",", "P", "=", "u", "n", "v", "o", "i", "c", "e", "d", ",", "E", "n", "=", "n", "o", "i", "s", "e", ";", "C", "3", "=", "3", ",", "T", "=", "s", "p", "e", "e", "c", "h", ",", "F", "=", "h", "i", "g", "h", ",", "P", "=", "c", "o", "n", "s", "o", "n", "a", "n", "t", ",", "E", "n", "=", "a", " ", "s", "t", "o", "p">>], [key |-> "response", value |-> <<"(", "C", "1", ",", " ", "s", "p", "e", "e", "c", "h", ",", " ", "l", "o", "w", ",", " ", "v", "o", "w", "e", "l", ",", " ", "l", "o", "w", " ", "v", "o", "w", "e", "l", ")", "\n", "(", " ", "c", " ", "2", ",", " ", "s", "p", "e", "e", "c", "h", ",", " ", "m", "i", "d", ",", " ", "u", "n", "v", "o", "i", "c", "e", "d", ",", " ", "a", " ", "p", "a", "u", "s", "e", ")", "\n", "(", "3", ",", " ", "s", "p", "e", "e", "c", "h", ",", " ", "h", "i", "g", "h", ",", " ", "v", "o", "w", "e", "l", ",", " ", "b", "u", "r", "s", "t", ")">>]>>],
    [readable |-> FALSE, rec |-> <<>>],
    [readable |-> TRUE, rec |-> <<[key |-> "response", value |-> <<"(", "1", ",", " ", "s", "p", "e", "e", "c", "h", ",", " ", "l", "o", "w", ",", " ", "v", "o", "w", "e", "l", ",", " ", "l", "o", "w", " ", "v", "o", "w", "e", "l", ")">>]>>],
    [readable |-> TRUE, rec |-> <<[key |-> "prompt2_target", value |-> <<"C", "1", "=", "1", ",", "T", "=", "s", "p", "e", "e", "c", "h", ",", "F", "=", "l", "o", "w", ",", "P", "=", "v", "o", "w", "e", "l", ",", "E", "n", "=", "l", "o", "w", " ", "v", "o", "w", "e", "l", ";", "C", "2", "=", "2", ",", "T", "=", "n", "o", "n", "-", "s", "p", "e", "e", "c", "h", ",", "F", "=", "m", "i", "d", ",", "P", "=", "u", "n", "v", "o", "i", "c", "e", "d", ",", "E", "n", "=", "n", "o", "i", "s", "e", ";", " ", "h", "i", "s", "s", ";", "C", "3", "=", "3", ",", "T", "=", "s", "p", "e", "e", "c", "h", ",", "F", "=", "h", "i", "g", "h", ",", "P", "=", "c", "o", "n", "s", "o", "n", "a", "n", "t", ",", "E", "n", "=", "a", " ", "s", "t", "o", "p">>], [key |-> "response", value |-> <<"(", "1", ",", " ", "s", "p", "e", "e", "c", "h", ",", " ", "l", "o", "w", ",", " ", "v", "o", "w", "e", "l", ",", " ", "l", "o", "w", " ", "v", "o", "w", "e", "l", ")">>]>>],
    [readable |-> TRUE, rec |-> <<[key |-> "prompt2_target", value |-> <<"C", "1", "=", "1", ",", "T", "=", "s", "p", "e", "e", "c", "h", ",", "F", "=", "l", "o", "w", ",", "P", "=", "v", "o", "w", "e", "l", ",", "E", "n", "=", "l", "o", "w", " ", "v", "o", "w", "e", "l", ";", "C", "2", "=", "1", ",", "T", "=", "n", "o", "n", "-", "s", "p", "e", "e", "c", "h", ",", "F", "=", "m", "i", "d", ",", "P", "=", "u", "n", "v", "o", "i", "c", "e", "d", ",", "E", "n", "=", "n", "o", "i", "s", "e", ";", "C", "3", "=", "3", ",", "T", "=", "s", "p", "e", "e", "c", "h", ",", "F", "=", "h", "i", "g", "h", ",", "P", "=", "c", "o", "n", "s", "o", "n", "a", "n", "t", ",", "E", "n", "=", "a", " ", "s", "t", "o", "p">>], [key |-> "response", value |-> <<"(", "2", ",", " ", "s", "p", "e", "e", "c", "h", ",", " ", "l", "o", "w", ",", " ", "v", "o", "w", "e", "l", ",", " ", "x", ")", " ", "(", "C", "1", " ", ",", " ", "s", "p", "e", "e", "c", "h", ",", " ", "l", "o", "w", ",", " ", "v", "o", "w", "e", "l", ",", " ", "y", ")">>]>>],
    [readable |-> TRUE, rec |-> <<[key |-> "prompt2_target", value |-> <<"C", "1", "=", "1", ",", "T", "=", "s", "p", "e", "e", "c", "h", ",", "F", "=", "l", "o", "w", ",", "P", "=", "v", "o", "w", "e", "l", ",", "E", "n", "=", "l", "o", "w", " ", "v", "o", "w", "e", "l", ";", "C", "2", "=", "2", ",", "T", "=", "n", "o", "n", "-", "s", "p", "e", "e", "c", "h", ",", "F", "=", "m", "i", "d", ",", "P", "=", "u", "n", "v", "o", "i", "c", "e", "d", ",", "E", "n", "=", "n", "o", "i", "s", "e", ";", "C", "3", "=", "3", ",", "T", "=", "s", "p", "e", "e", "c", "h", ",", "F", "=", "h", "i", "g", "h", ",", "P", "=", "c", "o", "n", "s", "o", "n", "a", "n", "t", ",", "E", "n", "=", "a", " ", "s", "t", "o", "p">>]>>] >>

\* main of eval_prompt2_reward_json on up to MaxFiles consecutive files of
\* SampleFiles (taken as a ring): the loop over the files, the caption scores
\* and the summary.  Of the summary the counts and the caption scores are
\* kept, of per_sample the status and num_regions; the accuracy and
\* consistency values are computed from the same lists and left out.
EvalPrompt2RewardJson ==
    /\ fn = "none"
    /\ completions = <<>>
    /\ \E first \in 1..Len(SampleFiles), n \in 0..MaxFiles, strict \in BOOLEAN,
          env \in [rouge_l_score : {PyOk(FDec(1, 2))},
                   meteor_score : {PyOk(FDec(1, 4)), PyRaise("LookupError")},
                   bert_score : {PyOk(FDec(3, 4))}] :
       \E paths \in {[i \in 1..n |-> SampleFiles[((first + i - 2) % Len(SampleFiles)) + 1]]} :
       \* lines 186-204 for each file: the normalized target and the records by Cn
       \E gt_norm \in {[i \in 1..n |->
                          _normalize_gt_prompt2_target(
                              DictGet(paths[i].rec, "prompt2_target", <<>>))]} :
       \E gt_by_cn \in {[i \in 1..n |->
                           IF gt_norm[i].kind = "None" THEN <<>>
                           ELSE _parse_regions_loose(gt_norm[i].val).val]},
          pred_by_cn \in {[i \in 1..n |->
                             _parse_regions_loose(_normalize_pred_response(
                                 DictGet(paths[i].rec, "response", <<>>))).val]} :
           LET RECURSIVE Regions(_, _, _)
               Regions(i, j, st) ==
                   IF j > Len(gt_by_cn[i]) THEN st
                   ELSE Regions(i, j + 1,
                                [st EXCEPT !.n_regions = @ + 1,
                                           !.gt_caps = Append(@, gt_by_cn[i][j].value.En),
                                           !.pred_caps =
                                               Append(@, DictGet(pred_by_cn[i], gt_by_cn[i][j].key,
                                                                 [En |-> <<>>]).En)])
               RECURSIVE Loop(_, _)
               Loop(i, st) ==
                   IF i > n THEN st
                   ELSE IF ~paths[i].readable
                   THEN Loop(i + 1, [st EXCEPT !.unreadable = @ + 1])
                   ELSE IF gt_norm[i].kind = "None"
                   THEN Loop(i + 1,
                             [st EXCEPT !.invalid_gt = @ + 1,
                                        !.per_sample = Append(@, [status |-> "invalid_gt",
                                                                  num_regions |-> 0])])
                   ELSE Loop(i + 1,
                             [Regions(i, 1, st) EXCEPT
                                 !.per_sample = Append(@, [status |-> "ok",
                                                           num_regions |-> Len(gt_by_cn[i])])])
               Out(st) ==
                   LET Summary(caption) ==
                           IF Raised(caption) THEN caption
                           ELSE PyOk([summary |-> [num_files |-> n,
                                                   num_unreadable |-> st.unreadable,
                                                   num_invalid_gt |-> st.invalid_gt,
                                                   num_regions_scored |-> st.n_regions,
                                                   caption_quality_en |-> caption.val],
                                      samples |-> st.per_sample])
                   IN  /\ ret' = IF n = 0 THEN PyRaise("FileNotFoundError")
                                 ELSE Summary(_caption_scores(st.gt_caps, env, strict).ret)
                       /\ locals' = [paths |-> paths, strict |-> strict, env |-> env,
                                     gt_caps |-> st.gt_caps, pred_caps |-> st.pred_caps]
           IN  Out(Loop(1, [unreadable |-> 0, invalid_gt |-> 0, n_regions |-> 0,
                            gt_caps |-> <<>>, pred_caps |-> <<>>, per_sample |-> <<>>]))
    /\ fn' = "eval_prompt2_reward_json"
    /\ UNCHANGED <<completions, assistant, lock, stdin, stdout, proc, thread>>

\* Predictions as the drivers hand them to the padding functions (the integers
\* of a response, possibly none, repeated, negative or already 99 and above)
\* and GT lists of region IDs.
PadInputs ==
    [pred : {<<>>, <<5>>, <<99>>, <<100>>, <<100, 99>>, <<99, 101>>, <<5, 99>>, <<7, 7>>,
             <<0 - 3>>, <<2, 1>>, <<1, 2, 3>>, <<3, 99, 1>>, <<1, 2, 3, 4>>},
     gt : {<<1, 2, 3>>, <<5, 16>>, <<16>>}]

\* The padding of one prediction as the drivers do it before the metrics:
\* pred3 = _pad_missing_with_impossible(pred, n), p_at_k =
\* _safe_pred_for_at_k(pred, n), and the three metrics on the padded lists.
PadPrediction ==
    /\ fn = "none"
    /\ completions = <<>>
    /\ \E call \in PadInputs, n \in 1..MaxK :
           LET Out(padded, safe) ==
                   /\ ret' = PyOk([padded |-> padded, safe |-> safe,
                                   recall |-> recall_at_k(padded, call.gt, n),
                                   ndcg |-> ndcg_at_k(padded, call.gt, n),
                                   safe_ndcg |-> ndcg_at_k(safe, call.gt, n),
                                   ap |-> average_precision(padded, call.gt)])
                   /\ locals' = [pred |-> call.pred, gt |-> call.gt, n |-> n]
           IN  Out(_pad_missing_with_impossible(call.pred, n), _safe_pred_for_at_k(call.pred, n))
    /\ fn' = "_pad_missing_with_impossible"
    /\ UNCHANGED <<completions, assistant, lock, stdin, stdout, proc, thread>>

\* ------------------------------------------------------------------------
\* metrics/caption_metrics.py: meteor_score.  The call runs in steps: the
\* batch scorer, one pass of the per-sample loop, the import of the NLTK
\* scorer and one pass of its loop.  locals.trace lists the calls made so
\* far on scorers, each with its stage (1 batch, 2 per-sample, 3 NLTK), the
\* sample and whether it returned.
\* ------------------------------------------------------------------------

\* The samples of one call.
MaxSamples == 2

\* Scores a scorer can give to a sample.
SampleScores == {FDec(1, 4), FDec(1, 2)}

\* meteor_score(gts, res) is called with n samples; sample bad, if any, has
\* no hypothesis list in res ("missing"), an empty one ("empty") or one of
\* two hypotheses ("two").
MsCall ==
    /\ fn = "none"
    /\ completions = <<>>
    /\ \E n \in 0..MaxSamples, bad \in 0..MaxSamples, kind \in {"none", "missing", "empty", "two"} :
           /\ bad <= n
           /\ (bad = 0) = (kind = "none")
           /\ locals' = [n |-> n, bad |-> bad, kind |-> kind, pc |-> "batch", i |-> 1,
                         per_sample |-> <<>>, trace |-> <<>>]
    /\ fn' = "meteor_score"
    /\ UNCHANGED <<completions, assistant, ret, lock, stdin, stdout, proc, thread>>

\* The batch stage without its except clause: a failure of compute_score
\* reaches the caller.
MsBatchPropagates ==
    /\ fn = "meteor_score"
    /\ locals.pc = "batch"
    /\ \/ /\ locals' = [locals EXCEPT !.pc = "per_sample",
                            !.trace = <<[stage |-> 1, op |-> "RobustMeteor", i |-> 0, ok |-> FALSE]>>]
          /\ ret' = ret
       \/ /\ locals' = [locals EXCEPT !.pc = "done",
                            !.trace = <<[stage |-> 1, op |-> "RobustMeteor", i |-> 0, ok |-> TRUE],
                                        [stage |-> 1, op |-> "compute_score", i |-> 0, ok |-> FALSE]>>]
          /\ ret' = PyRaise("RuntimeError")
       \/ /\ locals.bad = 0
          /\ \E score \in SampleScores, scores \in [1..locals.n -> SampleScores] :
                 ret' = PyOk([aggregate |-> score, per_sample |-> scores])
          /\ locals' = [locals EXCEPT !.pc = "done",
                            !.trace = <<[stage |-> 1, op |-> "RobustMeteor", i |-> 0, ok |-> TRUE],
                                        [stage |-> 1, op |-> "compute_score", i |-> 0, ok |-> TRUE]>>]
    /\ UNCHANGED <<completions, assistant, fn, lock, stdin, stdout, proc, thread>>

\* Lines 82-86: scorer = RobustMeteor() raises, or compute_score raises
\* (AssertionError for keys or hypothesis lists that do not fit, a pipe or
\* read failure otherwise), or it returns (score, scores), which is returned.
MsBatch ==
    /\ fn = "meteor_score"
    /\ locals.pc = "batch"
    /\ \/ /\ locals' = [locals EXCEPT !.pc = "per_sample",
                            !.trace = <<[stage |-> 1, op |-> "RobustMeteor", i |-> 0, ok |-> FALSE]>>]
          /\ ret' = ret
       \/ /\ locals' = [locals EXCEPT !.pc = "per_sample",
                            !.trace = <<[stage |-> 1, op |-> "RobustMeteor", i |-> 0, ok |-> TRUE],
                                        [stage |-> 1, op |-> "compute_score", i |-> 0, ok |-> FALSE]>>]
          /\ ret' = ret
       \/ /\ locals.bad = 0
          /\ \E score \in SampleScores, scores \in [1..locals.n -> SampleScores] :
                 ret' = PyOk([aggregate |-> score, per_sample |-> scores])
          /\ locals' = [locals EXCEPT !.pc = "done",
                            !.trace = <<[stage |-> 1, op |-> "RobustMeteor", i |-> 0, ok |-> TRUE],
                                        [stage |-> 1, op |-> "compute_score", i |-> 0, ok |-> TRUE]>>]
    /\ UNCHANGED <<completions, assistant, fn, lock, stdin, stdout, proc, thread>>

\* One pass of the loop of lines 92-101, or lines 102-103 after the last
\* pass: the lookup res[i] or the assertion fails, or scorer_i =
\* RobustMeteor() raises, or _score raises or returns a score; once scorer_i
\* exists its __del__ is called, and an exception of __del__ is dropped.  Any
\* exception that leaves the loop ends the stage (lines 104-105).
MsSample ==
    /\ fn = "meteor_score"
    /\ locals.pc = "per_sample"
    /\ LET i == locals.i
           Ev(op, ok) == [stage |-> 2, op |-> op, i |-> i, ok |-> ok]
           Mean(v) ==
               LET RECURSIVE Sum(_)
                   Sum(k) == IF k > Len(v) THEN FZero ELSE FAdd(v[k], Sum(k + 1))
               IN  IF v = <<>> THEN FZero ELSE FDiv(Sum(1), FInt(Len(v)))
           Fail(events) ==
               /\ locals' = [locals EXCEPT !.pc = "nltk", !.i = 0,
                                           !.trace = locals.trace \o events]
               /\ ret' = ret
       IN  IF i > locals.n
           THEN /\ ret' = PyOk([aggregate |-> Mean(locals.per_sample),
                                per_sample |-> locals.per_sample])
                /\ locals' = [locals EXCEPT !.pc = "done"]
           ELSE IF i = locals.bad
           THEN Fail(<<Ev(IF locals.kind = "missing" THEN "res[i]" ELSE "assert", FALSE)>>)
           ELSE \/ Fail(<<Ev("RobustMeteor", FALSE)>>)
                \/ \E del \in BOOLEAN :
                       \/ Fail(<<Ev("RobustMeteor", TRUE), Ev("_score", FALSE), Ev("__del__", del)>>)
                       \/ \E score \in SampleScores :
                              /\ locals' = [locals EXCEPT
                                     !.i = i + 1,
                                     !.per_sample = Append(locals.per_sample, score),
                                     !.trace = locals.trace \o
                                         <<Ev("RobustMeteor", TRUE), Ev("_score", TRUE),
                                           Ev("__del__", del)>>]
                              /\ ret' = ret
    /\ UNCHANGED <<completions, assistant, fn, lock, stdin, stdout, proc, thread>>

\* Lines 108-117: the import (i = 0), which can raise, with per_sample = []
\* of line 111; then one pass of the loop, where res[i] or res[i][0] or
\* nltk_meteor_score can raise; then the return.  Nothing catches an
\* exception of this stage.
MsNltk ==
    /\ fn = "meteor_score"
    /\ locals.pc = "nltk"
    /\ LET i == locals.i
           Ev(op, ok) == [stage |-> 3, op |-> op, i |-> i, ok |-> ok]
           Mean(v) ==
               LET RECURSIVE Sum(_)
                   Sum(k) == IF k > Len(v) THEN FZero ELSE FAdd(v[k], Sum(k + 1))
               IN  IF v = <<>> THEN FZero ELSE FDiv(Sum(1), FInt(Len(v)))
           Raise(exc, op) ==
               /\ ret' = PyRaise(exc)
               /\ locals' = [locals EXCEPT !.pc = "done",
                                           !.trace = Append(locals.trace, Ev(op, FALSE))]
       IN  IF i = 0
           THEN \/ Raise("ImportError", "import")
                \/ /\ locals' = [locals EXCEPT !.i = 1, !.per_sample = <<>>,
                                               !.trace = Append(locals.trace, Ev("import", TRUE))]
                   /\ ret' = ret
           ELSE IF i > locals.n
           THEN /\ ret' = PyOk([aggregate |-> Mean(locals.per_sample),
                                per_sample |-> locals.per_sample])
                /\ locals' = [locals EXCEPT !.pc = "done"]
           ELSE IF i = locals.bad /\ locals.kind = "missing"
           THEN Raise("KeyError", "res[i]")
           ELSE IF i = locals.bad /\ locals.kind = "empty"
           THEN Raise("IndexError", "res[i][0]")
           ELSE \/ Raise("LookupError", "nltk_meteor_score")
                \/ \E score \in SampleScores :
                       /\ locals' = [locals EXCEPT
                              !.i = i + 1,
                              !.per_sample = Append(locals.per_sample, score),
                              !.trace = Append(locals.trace, Ev("nltk_meteor_score", TRUE))]
                       /\ ret' = ret
    /\ UNCHANGED <<completions, assistant, fn, lock, stdin, stdout, proc, thread>>

Next ==
    \/ Prompt1Reward
    \/ Prompt2Reward
    \/ Prompt2NoFieldAccuracyReward
    \/ StrictFormatScore
    \/ ParseRegionIdsAny
    \/ NdcgAt3
    \/ ParseRegionTuples
    \/ Normalize
    \/ ExtractLabelByLexicon
    \/ RecallAtK
    \/ NdcgAtK
    \/ AveragePrecision
    \/ MeanAveragePrecision
    \/ Bucket
    \/ CaptionScores
    \/ BuildPrompt2Target
    \/ EvalGtTarget
    \/ EvalLocalization
    \/ EvalGrpoMix
    \/ EvalPrompt2RewardJson
    \/ PadPrediction
    \/ MsCall
    \/ MsBatch
    \/ MsSample
    \/ MsNltk

Spec == Init /\ [][Next]_vars

\* ------------------------------------------------------------------------
\* metrics/caption_metrics.py: RobustMeteor. A call runs in steps between
\* its blocking operations (lock.acquire, stdout.readline); the scorer
\* subprocess answers a SCORE line with one statistics line and an EVAL line
\* of n segments with n scores and an aggregate score, or, if it prints no
\* separate aggregate, with one score per segment (one line at least).
\* ------------------------------------------------------------------------

MeteorInit ==
    /\ completions = <<>>
    /\ assistant = <<>>
    /\ fn = "none"
    /\ ret = NotCalled
    /\ locals = <<>>
    /\ lock = 0
    /\ stdin = <<>>
    /\ stdout = <<>>
    /\ \E aggregate \in {0, 1}, noise \in 0..MaxNoise :
           proc = [alive |-> TRUE, aggregate |-> aggregate, noise |-> noise]
    /\ thread = [t \in Threads |-> NoCall]

\* compute_score(gts, res) up to its lock.acquire() (lines 31-36), or
\* _score(hypothesis_str, reference_list) up to its lock.acquire() (line 55):
\* the assertion of line 31 fails before the lock is touched.
Call(t) ==
    /\ thread[t].pc = "idle"
    /\ thread[t].calls < MaxCalls
    /\ \E op \in {"compute_score", "_score"}, keys_equal \in BOOLEAN, n \in 0..MaxImages, bad \in 0..MaxImages :
           /\ bad <= n
           /\ op = "_score" => (keys_equal /\ n = 1 /\ bad = 0)
           /\ thread' = [thread EXCEPT ![t] =
                  IF ~keys_equal
                  THEN [NoCall EXCEPT !.op = op, !.result = "AssertionError", !.calls = thread[t].calls + 1]
                  ELSE [NoCall EXCEPT !.pc = "acquire", !.op = op, !.n = n, !.bad = bad,
                                      !.stage = IF op = "_score" THEN "score"
                                                ELSE IF n = 0 THEN "eval" ELSE "stat",
                                      !.i = 1, !.calls = thread[t].calls]]
    /\ UNCHANGED <<completions, assistant, fn, ret, locals, lock, stdin, stdout, proc>>

\* self.lock.acquire(): blocks while another thread holds the lock.
Acquire(t) ==
    /\ thread[t].pc = "acquire"
    /\ lock = 0
    /\ lock' = t
    /\ thread' = [thread EXCEPT ![t].pc = "write"]
    /\ UNCHANGED <<completions, assistant, fn, ret, locals, stdin, stdout, proc>>

\* stdin.write(line); stdin.flush(): the SCORE line of _stat (after the
\* assertion of line 39) or of _score (lines 57-60), or the EVAL line (lines
\* 43-44, 62-64). Writing to a subprocess that has exited raises.
Write(t) ==
    /\ thread[t].pc = "write"
    /\ LET th == thread[t]
       IN  IF th.stage = "stat" /\ th.bad = th.i
           THEN /\ thread' = [thread EXCEPT ![t].pc = "release", ![t].result = "AssertionError"]
                /\ stdin' = stdin
           ELSE IF ~proc.alive
           THEN /\ thread' = [thread EXCEPT ![t].pc = "release", ![t].result = "BrokenPipeError"]
                /\ stdin' = stdin
           ELSE IF th.stage = "eval"
           THEN /\ stdin' = Append(stdin, [kind |-> "EVAL", n |-> th.n, by |-> t])
                /\ thread' = [thread EXCEPT ![t].pc = "read_scalar",
                                            ![t].remaining = IF th.op = "_score" THEN 2 ELSE th.n + 1,
                                            ![t].attempts = MAX_READS]
           ELSE /\ stdin' = Append(stdin, [kind |-> "SCORE", n |-> 1, by |-> t])
                /\ thread' = [thread EXCEPT ![t].pc = "read_stats"]
    /\ UNCHANGED <<completions, assistant, fn, ret, locals, lock, stdout, proc>>

\* stdout.readline() of _stat and of line 61: blocks until a line or the end
\* of the stream is there, and takes whatever line comes.
ReadStats(t) ==
    /\ thread[t].pc = "read_stats"
    /\ stdout # <<>> \/ ~proc.alive
    /\ stdout' = IF stdout = <<>> THEN stdout ELSE Tail(stdout)
    /\ LET th == thread[t]
       IN  thread' = [thread EXCEPT ![t].pc = "write",
                                    ![t].i = th.i + 1,
                                    ![t].stage = IF th.op = "compute_score" /\ th.i + 1 <= th.n
                                                 THEN "stat" ELSE "eval"]
    /\ UNCHANGED <<completions, assistant, fn, ret, locals, lock, stdin, proc>>

\* One iteration of the loop of _read_scalar_score (lines 21-28) and what
\* its caller does with the outcome: compute_score reads n + 1 scores (lines
\* 46-48); _score reads first with max_reads = 64, then second with
\* max_reads = 1, and returns first when that read raises (lines 66-71).
ReadScalar(t) ==
    /\ thread[t].pc = "read_scalar"
    /\ stdout # <<>> \/ ~proc.alive
    /\ stdout' = IF stdout = <<>> THEN stdout ELSE Tail(stdout)
    /\ LET th == thread[t]
           scalar == stdout # <<>> /\ Head(stdout).kind = "scalar"
           raises == stdout = <<>> \/ (~scalar /\ th.attempts = 1)
       IN  thread' = [thread EXCEPT ![t] =
               IF scalar /\ th.remaining = 1
               THEN [th EXCEPT !.pc = "release", !.result = "ok", !.remaining = 0]
               ELSE IF scalar
               THEN [th EXCEPT !.remaining = th.remaining - 1,
                               !.attempts = IF th.op = "_score" THEN 1 ELSE MAX_READS]
               ELSE IF raises /\ th.op = "_score" /\ th.remaining = 1
               THEN [th EXCEPT !.pc = "release", !.result = "ok"]
               ELSE IF raises
               THEN [th EXCEPT !.pc = "release", !.result = "RuntimeError"]
               ELSE [th EXCEPT !.attempts = th.attempts - 1]]
    /\ UNCHANGED <<completions, assistant, fn, ret, locals, lock, stdin, proc>>

\* finally: self.lock.release(), then the return or the exception.
Release(t) ==
    /\ thread[t].pc = "release"
    /\ lock' = 0
    /\ thread' = [thread EXCEPT ![t] =
           [NoCall EXCEPT !.op = thread[t].op, !.result = thread[t].result,
                          !.calls = thread[t].calls + 1]]
    /\ UNCHANGED <<completions, assistant, fn, ret, locals, stdin, stdout, proc>>

\* The subprocess answers the oldest request line; it may print one
\* non-scalar line (a warning) anywhere among the lines of the answer.
JarRespond ==
    /\ proc.alive
    /\ stdin # <<>>
    /\ stdin' = Tail(stdin)
    /\ LET req == Head(stdin)
           answer == IF req.kind = "SCORE" THEN <<[kind |-> "stats", by |-> req.by]>>
                     ELSE [k \in 1..(IF proc.aggregate = 1 THEN req.n + 1
                                     ELSE IF req.n = 0 THEN 1 ELSE req.n) |->
                              [kind |-> "scalar", by |-> req.by]]
       IN  \/ /\ stdout' = stdout \o answer
              /\ proc' = proc
           \/ /\ proc.noise > 0
              /\ \E p \in 0..Len(answer) :
                     stdout' = stdout \o SubSeq(answer, 1, p) \o <<[kind |-> "noise", by |-> 0]>>
                                      \o SubSeq(answer, p + 1, Len(answer))
              /\ proc' = [proc EXCEPT !.noise = proc.noise - 1]
    /\ UNCHANGED <<completions, assistant, fn, ret, locals, lock, thread>>

\* The subprocess exits: its stdout reaches end of stream once drained.
JarExit ==
    /\ proc.alive
    /\ proc' = [proc EXCEPT !.alive = FALSE]
    /\ UNCHANGED <<completions, assistant, fn, ret, locals, lock, stdin, stdout, thread>>

MeteorNext ==
    \/ \E t \in Threads :
           \/ Call(t)
           \/ Acquire(t)
           \/ Write(t)
           \/ ReadStats(t)
           \/ ReadScalar(t)
           \/ Release(t)
    \/ JarRespond
    \/ JarExit

\* A thread inside a call is scheduled again and again, and so is a live
\* subprocess with a request to answer; nothing makes a thread call, nor the
\* subprocess exit.
MeteorSpec ==
    /\ MeteorInit
    /\ [][MeteorNext]_vars
    /\ \A t \in Threads :
           WF_vars(Acquire(t) \/ Write(t) \/ ReadStats(t) \/ ReadScalar(t) \/ Release(t))
    /\ WF_vars(JarRespond)

\* ------------------------------------------------------------------------
\* build_grpo2_synth_pred_json.py: calls of parse_mix and
\* _parse_target_weights, and make_case step by step.
\* ------------------------------------------------------------------------

\* A call of parse_mix (--mix) or of _parse_target_weights (--target-weights).
ParseWeights ==
    /\ fn = "none"
    /\ \E spec \in SeqToSet(WeightSpecs), f \in {"parse_mix", "_parse_target_weights"} :
           /\ ret' = IF f = "parse_mix" THEN parse_mix(spec) ELSE _parse_target_weights(spec)
           /\ locals' = [spec |-> spec]
           /\ fn' = f
    /\ UNCHANGED <<completions, assistant, lock, stdin, stdout, proc, thread>>

\* range(200) of the one_not_order loop and range(500) of the two_not_order
\* loop.
ONE_NOT_ORDER_TRIES == 200

TWO_NOT_ORDER_TRIES == 500

\* The arguments of make_case: triplets as extract_triplet returns them
\* (three integers of a turn, repeated ones included), the seven case names
\* and one unknown name, and pools list(range(id_min, id_max + 1)).
MakeCaseInputs ==
    [gt : {<<1, 2, 3>>, <<3, 1, 2>>, <<2, 2, 3>>, <<1, 1, 1>>},
     case : {"three_correct_order", "wrong0", "three_not_order", "one_correct_order",
             "two_correct_order", "one_not_order", "two_not_order", "two_wrong"},
     pool : {<<>>, <<1, 2, 3>>, <<1, 2, 3, 4>>, <<1, 2, 3, 4, 5>>, <<1, 2, 3, 4, 5, 6>>}]

\* main calls make_case(gt, assign[i], rng, pool).
McCall ==
    /\ fn = "none"
    /\ \E call \in MakeCaseInputs :
           locals' = [gt |-> call.gt, case |-> call.case, pool |-> call.pool, pc |-> "start",
                      picks |-> <<>>, tries |-> 0, out |-> <<>>, branch |-> "none"]
    /\ fn' = "make_case"
    /\ UNCHANGED <<completions, assistant, ret, lock, stdin, stdout, proc, thread>>

\* make_case up to its loop (lines 79-91, 98-117, 124-126, 134): the draws
\* of rng are any value they can return; sample_wrong(k) raises ValueError
\* with fewer than k candidates.  The cases without a loop return here; the
\* others enter their loop with picks, the list they shuffle.
McDraw ==
    /\ fn = "make_case"
    /\ locals.pc = "start"
    /\ LET gt == locals.gt
           cand == SeqToSet(locals.pool) \ SeqToSet(gt)
           Wrong(k) == {w \in [1..k -> cand] : \A i, j \in 1..k : i # j => w[i] # w[j]}
           Return(r) == /\ ret' = r
                        /\ locals' = [locals EXCEPT !.pc = "done", !.branch = "direct",
                                                    !.out = IF r.kind = "ok" THEN r.val ELSE <<>>]
           Enter(picks) == /\ locals' = [locals EXCEPT !.pc = "loop", !.picks = picks]
                           /\ UNCHANGED ret
       IN  CASE locals.case = "three_correct_order" -> Return(PyOk(gt))
             [] locals.case = "wrong0" ->
                    IF Cardinality(cand) < 3 THEN Return(PyRaise("ValueError"))
                    ELSE \E w \in Wrong(3) : Return(PyOk(w))
             [] locals.case = "three_not_order" -> Enter(gt)
             [] locals.case = "one_correct_order" ->
                    \E keep_idx \in 1..3 :
                        IF Cardinality(cand) < 2 THEN Return(PyRaise("ValueError"))
                        ELSE \E w \in Wrong(2) :
                                 Return(PyOk([i \in 1..3 |->
                                                 IF i = keep_idx THEN gt[i]
                                                 ELSE IF i = (IF keep_idx = 1 THEN 2 ELSE 1)
                                                 THEN w[1] ELSE w[2]]))
             [] locals.case = "two_correct_order" ->
                    \E miss \in 1..3 :
                        IF cand = {} THEN Return(PyRaise("ValueError"))
                        ELSE \E w \in Wrong(1) : Return(PyOk([gt EXCEPT ![miss] = w[1]]))
             [] locals.case = "one_not_order" ->
                    \E i \in 1..3 :
                        IF Cardinality(cand) < 2 THEN Return(PyRaise("ValueError"))
                        ELSE \E w \in Wrong(2) : Enter(<<gt[i]>> \o w)
             [] locals.case = "two_not_order" ->
                    \E i, j \in 1..3 :
                        /\ i # j
                        /\ IF cand = {} THEN Return(PyRaise("ValueError"))
                           ELSE \E w \in Wrong(1) : Enter(<<gt[i], gt[j]>> \o w)
             [] OTHER -> Return(PyRaise("ValueError"))
    /\ UNCHANGED <<completions, assistant, fn, lock, stdin, stdout, proc, thread>>

\* One pass of the loop of three_not_order (lines 93-97), one_not_order
\* (118-122) or two_not_order (127-132): shuffle and return if the test
\* holds.  rng.shuffle can give any order of the 3 items; gt_pos[v] is the
\* last position of v in gt; tries counts the passes of the two bounded
\* loops.
McTry ==
    /\ fn = "make_case"
    /\ locals.pc = "loop"
    /\ locals.case = "one_not_order" => locals.tries < ONE_NOT_ORDER_TRIES
    /\ locals.case = "two_not_order" => locals.tries < TWO_NOT_ORDER_TRIES
    /\ \E p \in {q \in [1..3 -> 1..3] : \A i, j \in 1..3 : i # j => q[i] # q[j]} :
           LET gt == locals.gt
               GtPos(g, v) == CHOOSE i \in 1..3 : g[i] = v /\ \A j \in (i + 1)..3 : g[j] # v
               out == [i \in 1..3 |-> locals.picks[p[i]]]
               cid == locals.picks[1]
               good == Cardinality({c \in 1..2 : out[GtPos(gt, locals.picks[c])] = locals.picks[c]})
               ok == CASE locals.case = "three_not_order" -> out # gt
                       [] locals.case = "one_not_order" ->
                              /\ Cardinality({i \in 1..3 : out[i] = cid}) = 1
                              /\ out[GtPos(gt, cid)] # cid
                       [] OTHER -> good <= 1
           IN  IF ok
               THEN /\ ret' = PyOk(out)
                    /\ locals' = [locals EXCEPT !.pc = "done", !.branch = "shuffle", !.out = out]
               ELSE /\ locals' = [locals EXCEPT !.out = out,
                                                !.tries = IF locals.case = "three_not_order"
                                                          THEN @ ELSE @ + 1]
                    /\ UNCHANGED ret
    /\ UNCHANGED <<completions, assistant, fn, lock, stdin, stdout, proc, thread>>

\* The return after a bounded loop ran out: wrong + [cid] (line 123) or
\* [cids[1], wid, cids[0]] (line 133).
McFallback ==
    /\ fn = "make_case"
    /\ locals.pc = "loop"
    /\ \/ locals.case = "one_not_order" /\ locals.tries = ONE_NOT_ORDER_TRIES
       \/ locals.case = "two_not_order" /\ locals.tries = TWO_NOT_ORDER_TRIES
    /\ LET out == <<locals.picks[2], locals.picks[3], locals.picks[1]>>
       IN  /\ ret' = PyOk(out)
           /\ locals' = [locals EXCEPT !.pc = "done", !.branch = "fallback", !.out = out]
    /\ UNCHANGED <<completions, assistant, fn, lock, stdin, stdout, proc, thread>>

\* The bucket counts without the hand-out of the left records: every key keeps
\* floor(N * v / s).
BucketCountsFloorOnly(N, w) ==
    LET s == WeightSum(w)
        RECURSIVE Sum(_)
        Sum(k) == IF k > Len(w) THEN 0 ELSE ((N * w[k].value) \div s) + Sum(k + 1)
    IN  [left |-> N - Sum(1),
         cnt |-> [k \in 1..Len(w) |->
                     [key |-> w[k].key, value |-> (N * w[k].value) \div s]]]

\* The bucket counts of main (lines 149-156) for N records and the weights w
\* of parse_mix, in the order of w: raw = N * v / s in binary64, cnt =
\* floor(raw), and one more for the first left keys in descending order of
\* raw - cnt (sorted is stable, so equal keys stay in the order of w).  A
\* negative float is held as its sign and its magnitude; raw - cnt is exact.
BucketCounts(N, w) ==
    LET K == Len(w)
        s == WeightSum(w)
        ToInt(b) == IF b = <<>> THEN 0
                    ELSE b[1] + (IF Len(b) > 1 THEN b[2] * Limb ELSE 0)
        Trunc(x) == IF x.m = <<>> THEN <<>>
                    ELSE IF x.e >= 0 THEN BShl(x.m, x.e) ELSE BShr(x.m, 0 - x.e)
        \* x - trunc(x) as a multiple of 2^x.e
        Rest(x, t) == IF x.m = <<>> \/ x.e >= 0 THEN <<>> ELSE BSub(x.m, BShl(t, 0 - x.e))
        \* floor(raw) and raw - floor(raw) of raw = -x or x
        Parts(negative, x, t, r) ==
            IF r = <<>> THEN [floor |-> IF negative THEN 0 - ToInt(t) ELSE ToInt(t),
                             frac |-> FZero]
            ELSE IF ~negative THEN [floor |-> ToInt(t), frac |-> FRound(r, x.e)]
            ELSE [floor |-> 0 - (ToInt(t) + 1),
                  frac |-> FRound(BSub(BShl(<<1>>, 0 - x.e), r), x.e)]
        Split(negative, x, t) == Parts(negative, x, t, Rest(x, t))
        Raw(negative, x) == Split(negative, x, Trunc(x))
        RECURSIVE Rows(_)
        Rows(k) ==
            IF k > K THEN <<>>
            ELSE <<Raw(w[k].value < 0,
                       FDiv(FInt(N * (IF w[k].value < 0 THEN 0 - w[k].value ELSE w[k].value)),
                            FInt(s)))>> \o Rows(k + 1)
        Out(rows) ==
            LET RECURSIVE Sum(_)
                Sum(k) == IF k > K THEN 0 ELSE rows[k].floor + Sum(k + 1)
                \* the place of key k in frac_order, from 0
                Place(k) ==
                    Cardinality({j \in 1..K : \/ FLt(rows[k].frac, rows[j].frac)
                                              \/ rows[j].frac = rows[k].frac /\ j < k})
                \* frac_order[:left]
                Stop(left) == IF left < 0 THEN (IF left + K < 0 THEN 0 ELSE left + K)
                              ELSE IF left > K THEN K ELSE left
                Top(left) ==
                    [left |-> left,
                     cnt |-> [k \in 1..K |->
                                 [key |-> w[k].key,
                                  value |-> IF Place(k) < Stop(left) THEN rows[k].floor + 1
                                            ELSE rows[k].floor]]]
            IN  Top(N - Sum(1))
    IN  Out(Rows(1))

\* The records of an input JSON.
MaxRecords == 4

\* main up to the assignment (lines 147-165): weights = parse_mix(args.mix),
\* the bucket counts, idxs in any order rng.shuffle can give, and assign,
\* filled from the slices idxs[cursor : cursor + cnt[k]] as Python takes
\* them.
Allocate ==
    /\ fn = "none"
    /\ \E spec \in SeqToSet(WeightSpecs), N \in 0..MaxRecords :
               LET Clip(x) == IF x < 0 THEN (IF x + N < 0 THEN 0 ELSE x + N)
                              ELSE IF x > N THEN N ELSE x
                   Put(d, key, value) ==
                       IF DictHas(d, key)
                       THEN [j \in 1..Len(d) |->
                                IF d[j].key = key THEN [key |-> key, value |-> value] ELSE d[j]]
                       ELSE Append(d, [key |-> key, value |-> value])
                   RECURSIVE Slice(_, _, _, _, _)
                   Slice(idxs, assign, i, b, name) ==
                       IF i > b THEN assign
                       ELSE Slice(idxs, Put(assign, idxs[i], name), i + 1, b, name)
                   RECURSIVE Loop(_, _, _, _, _)
                   Loop(idxs, cnt, k, cursor, assign) ==
                       IF k > Len(cnt) THEN assign
                       ELSE Loop(idxs, cnt, k + 1, cursor + cnt[k].value,
                                 Slice(idxs, assign, Clip(cursor) + 1,
                                       Clip(cursor + cnt[k].value), cnt[k].key))
                   Main(weights, counts) ==
                       \E idxs \in {p \in [1..N -> 0..(N - 1)] :
                                       \A i, j \in 1..N : i # j => p[i] # p[j]} :
                           \* parse_mix raises before the shuffle
                           /\ Raised(weights) => \A i \in 1..N : idxs[i] = i - 1
                           /\ ret' = IF Raised(weights) THEN weights
                                     ELSE PyOk([left |-> counts.left, cnt |-> counts.cnt,
                                                assign |-> Loop(idxs, counts.cnt, 1, 0, <<>>)])
                           /\ locals' = [spec |-> spec, N |-> N, idxs |-> idxs]
                   Counts(weights) ==
                       Main(weights, IF Raised(weights) THEN <<>>
                                     ELSE BucketCounts(N, WeightItems(spec).val))
               IN  Counts(parse_mix(spec))
    /\ fn' = "main"
    /\ UNCHANGED <<completions, assistant, lock, stdin, stdout, proc, thread>>

BuildInit ==
    /\ completions = <<>>
    /\ assistant = <<>>
    /\ fn = "none"
    /\ ret = NotCalled
    /\ locals = <<>>
    /\ lock = 0
    /\ stdin = <<>>
    /\ stdout = <<>>
    /\ proc = [alive |-> TRUE, aggregate |-> 1, noise |-> 0]
    /\ thread = [t \in Threads |-> NoCall]

BuildNext ==
    \/ ParseWeights
    \/ Allocate
    \/ McCall
    \/ McDraw
    \/ McTry
    \/ McFallback

\* The random source is fair: a loop whose shuffle can change the state of
\* the call is not stuck on the outcomes that leave it as it is.
BuildSpec ==
    /\ BuildInit
    /\ [][BuildNext]_vars
    /\ WF_vars(McDraw)
    /\ WF_vars(McTry)
    /\ WF_vars(McFallback)

\* ------------------------------------------------------------------------
\* Properties
\* ------------------------------------------------------------------------

RewardFunctions == {"prompt1_reward", "prompt2_reward", "prompt2_no_field_accuracy_reward"}

Returned == ret.kind = "ok"

InUnit(x) == FLe(F_0_0, x) /\ FLe(x, F_1_0)

\* The integers of the digit runs of a text, in order of appearance.
ExtractedInts(text) ==
    [k \in 1..Len(FindAllDigits(text)) |-> DecValue(FindAllDigits(text)[k])]

\* A text with a digit run int() refuses.
HasLongRun(text) ==
    \E k \in 1..Len(FindAllDigits(text)) : Len(FindAllDigits(text)[k]) > INT_MAX_STR_DIGITS

\* Exactly 3 integers, each in [1, 16], pairwise distinct.
ValidSelection(ids) ==
    /\ Len(ids) = 3
    /\ \A k \in 1..3 : ids[k] >= 1 /\ ids[k] <= 16
    /\ \A j, k \in 1..3 : j # k => ids[j] # ids[k]

\* C1: each of the three reward functions returns, without raising, a list
\* of one float per (completion, GT) pair, whatever the strings hold.
C1_RewardsNeverRaise ==
    fn \in RewardFunctions => Returned /\ Len(ret.val) = Len(completions)

\* C2: every reward of prompt1_reward and prompt2_reward is in [0, 1.1];
\* the nDCG component, and the accuracy and consistency of every region, are
\* in [0, 1].
C2_RewardsWithinBounds ==
    /\ (fn \in {"prompt1_reward", "prompt2_reward"} /\ Returned) =>
           \A k \in 1..Len(ret.val) : FLe(F_0_0, ret.val[k]) /\ FLe(ret.val[k], F_1_1)
    /\ (fn = "prompt1_reward" /\ Returned) =>
           \A k \in 1..Len(ret.val) : InUnit(locals.ndcg_scores[k])
    /\ fn = "_ndcg_at_3" => InUnit(ret.val)
    /\ (fn = "prompt2_reward" /\ Returned) =>
           \A k \in 1..Len(locals) : \A i \in 1..Len(locals[k]) :
               InUnit(locals[k][i].region_acc) /\ InUnit(locals[k][i].region_cons)

\* The upper bound 1.1 is attained by prompt2_reward, with three regions of
\* accuracy 1 and consistency 1.
C2_Witness ==
    /\ fn = "prompt2_reward"
    /\ Returned
    /\ \E k \in 1..Len(ret.val) :
          /\ ret.val[k] = F_1_1
          /\ Len(locals[k]) = 3
          /\ \A i \in 1..3 : locals[k][i].region_acc = F_1_0 /\ locals[k][i].region_cons = F_1_0

\* C3: prompt1_reward of a pair is 1.0 * ndcg3_score + 0.1 * format_score;
\* format_score is 1 iff the completion parses to a valid selection;
\* ndcg3_score is 0 when the completion does not parse or the GT has no IDs;
\* an unparseable completion scores exactly 0.0, a parseable one against a
\* GT without integers exactly 0.1.
C3_Prompt1WeightedSum ==
    (fn = "prompt1_reward" /\ Returned) =>
        \A k \in 1..Len(completions) :
            LET parsed == ValidSelection(ExtractedInts(completions[k]))
                noIds == FindAllDigits(assistant[k]) = <<>>
                n == locals.ndcg_scores[k]
                f == locals.format_scores[k]
            IN  /\ ret.val[k] = FAdd(FMul(F_1_0, n), FMul(F_0_1, f))
                /\ f = (IF parsed THEN F_1_0 ELSE F_0_0)
                /\ (~parsed \/ noIds) => n = F_0_0
                /\ ~parsed => ret.val[k] = F_0_0
                /\ (parsed /\ noIds) => ret.val[k] = F_0_1

\* A batch with an unparseable completion (0.0) next to a parseable one
\* scored against a GT without integers (0.1).
C3_Witness ==
    /\ fn = "prompt1_reward"
    /\ Returned
    /\ \E j, k \in 1..Len(completions) :
          /\ ~ValidSelection(ExtractedInts(completions[j]))
          /\ ret.val[j] = F_0_0
          /\ ValidSelection(ExtractedInts(completions[k]))
          /\ FindAllDigits(assistant[k]) = <<>>
          /\ ret.val[k] = F_0_1

\* The text "[a, b, c]": one space after each comma and no other character.
BracketList(a, b, c) ==
    <<"[">> \o PyStr(a) \o <<",", " ">> \o PyStr(b) \o <<",", " ">> \o PyStr(c) \o <<"]">>

\* A text that is, once trimmed, "[d, d, d]" with distinct IDs in [1, 16].
StrictForm(text) ==
    LET t == Strip(text)
    IN  \E a, b, c \in 1..16 : a # b /\ a # c /\ b # c /\ t = BracketList(a, b, c)

\* C4 (as stated): _strict_format_score accepts a completion only if,
\* trimmed, it is exactly "[d, d, d]" with distinct IDs in [1, 16], so that
\* "[1,2,3]" is rejected.
C4_StrictAcceptsOnlyBracketList ==
    (fn = "_strict_format_score" /\ Returned) =>
        \A k \in 1..Len(completions) :
            ret.val[k] = F_1_0 => StrictForm(completions[k])

\* C4 (amended): _strict_format_score gives 1.0 exactly to the completions
\* whose digit runs are 3 pairwise-distinct integers in [1, 16], whatever
\* the delimiters, and 0.0 to all others; every "[d, d, d]" text of distinct
\* IDs in [1, 16] is accepted.
C4_StrictFormatIsPermissive ==
    (fn = "_strict_format_score" /\ Returned) =>
        \A k \in 1..Len(completions) :
            /\ ret.val[k] = (IF ValidSelection(ExtractedInts(completions[k]))
                             THEN F_1_0 ELSE F_0_0)
            /\ StrictForm(completions[k]) => ret.val[k] = F_1_0

\* "[1,2,3]" scored 1.0 next to "[1, 2, 3]" scored 1.0.
C4_Witness ==
    /\ fn = "_strict_format_score"
    /\ Returned
    /\ \E j, k \in 1..Len(completions) :
          /\ completions[j] = BracketList(1, 2, 3)
          /\ ret.val[j] = F_1_0
          /\ completions[k] = <<"[", "1", ",", "2", ",", "3", "]">>
          /\ ret.val[k] = F_1_0

\* C5: _parse_region_ids_any returns the integers of the text, in order
\* of appearance, iff there are exactly 3 of them, each in [1, 16], pairwise
\* distinct; otherwise it returns None, never another list.
C5_ParseRegionIdsAny ==
    (fn = "_parse_region_ids_any" /\ ~Raised(ret)) =>
        /\ ret = (IF ValidSelection(ExtractedInts(locals.text))
                  THEN PyOk(ExtractedInts(locals.text)) ELSE PyNone)
        /\ Returned => ValidSelection(ret.val)

\* "regions: 4 9 2 please" parsed to [4, 9, 2].
C5_Witness ==
    /\ fn = "_parse_region_ids_any"
    /\ locals.text = <<"r", "e", "g", "i", "o", "n", "s", ":", " ", "4", " ", "9", " ", "2", " ", "p", "l", "e", "a", "s", "e">>
    /\ ret = PyOk(<<4, 9, 2>>)

\* The three cases of the graded nDCG of a prediction against a GT of three
\* distinct IDs.
GradedCases(pred, gt, n) ==
    /\ pred = gt => n = F_1_0
    /\ (SeqToSet(pred) = SeqToSet(gt) /\ pred # gt) => (FLt(F_0_0, n) /\ FLt(n, F_1_0))
    /\ SeqToSet(pred) \cap SeqToSet(gt) = {} => n = F_0_0

\* C6: against a GT of three pairwise-distinct IDs the nDCG component is
\* exactly 1.0 for the prediction equal to the GT, strictly between 0 and 1
\* for every other permutation of the GT, exactly 0.0 for a prediction that
\* shares no ID with the GT.
C6_GradedNdcg ==
    /\ (fn = "prompt1_reward" /\ Returned) =>
           \A k \in 1..Len(completions) :
               (/\ ValidSelection(ExtractedInts(completions[k]))
                /\ Len(FindAllDigits(assistant[k])) = 3
                /\ Cardinality(SeqToSet(ExtractedInts(assistant[k]))) = 3) =>
                   GradedCases(ExtractedInts(completions[k]), ExtractedInts(assistant[k]),
                               locals.ndcg_scores[k])
    /\ (fn = "_ndcg_at_3" /\ Len(locals.gt) = 3 /\ Cardinality(SeqToSet(locals.gt)) = 3) =>
           GradedCases(locals.pred, locals.gt, ret.val)

\* A batch with the reversed GT (strictly between 0 and 1) next to a
\* prediction that shares no ID with the GT (0.0).
C6_Witness ==
    /\ fn = "prompt1_reward"
    /\ Returned
    /\ \E j, k \in 1..Len(completions) :
          /\ FindAllDigits(assistant[j]) = <<<<"5">>, <<"9">>, <<"2">>>>
          /\ FindAllDigits(completions[j]) = <<<<"2">>, <<"9">>, <<"5">>>>
          /\ FLt(F_0_0, locals.ndcg_scores[j])
          /\ FLt(locals.ndcg_scores[j], F_1_0)
          /\ FindAllDigits(assistant[k]) = <<<<"5">>, <<"9">>, <<"2">>>>
          /\ FindAllDigits(completions[k]) = <<<<"1">>, <<"3">>, <<"4">>>>
          /\ locals.ndcg_scores[k] = F_0_0

\* gt[:3]
FirstThree(gt) == SubSeq(gt, 1, IF Len(gt) < 3 THEN Len(gt) ELSE 3)

\* The grade of an ID: 3, 2, 1 by the position of its first occurrence among
\* the first 3 GT IDs, 0 when it is not among them.
GradeOf(gt, id) ==
    LET at == {k \in 1..Len(FirstThree(gt)) : gt[k] = id}
    IN  IF at = {} THEN 0 ELSE 4 - MinOf(at)

\* The grades the GT gives, in descending order: one per distinct ID of the
\* first 3, at its first occurrence.
GtGrades(gt) ==
    LET firsts == SortedSeq({k \in 1..Len(FirstThree(gt)) : \A j \in 1..(k - 1) : gt[j] # gt[k]})
    IN  [i \in 1..Len(firsts) |-> 4 - firsts[i]]

Gain(rel, j) == FDiv(FInt(2 ^ rel - 1), math_log2(j + 1))

\* DCG of the prediction over IDCG of the GT's own grades, each summed from
\* 0.0 in rank order; 0.0 when the GT gives no grade.
ExpectedNdcg(pred, gt) ==
    LET g == GtGrades(gt)
        dcg == FAdd(FAdd(FAdd(F_0_0, Gain(GradeOf(gt, pred[1]), 1)),
                         Gain(GradeOf(gt, pred[2]), 2)),
                    Gain(GradeOf(gt, pred[3]), 3))
        i1 == FAdd(F_0_0, Gain(g[1], 1))
        i2 == FAdd(i1, Gain(g[2], 2))
        i3 == FAdd(i2, Gain(g[3], 3))
    IN  IF Len(g) = 0 THEN F_0_0
        ELSE FDiv(dcg, IF Len(g) = 1 THEN i1 ELSE IF Len(g) = 2 THEN i2 ELSE i3)

\* C7: _ndcg_at_3 grades the prediction by the first 3 GT IDs only (3, 2,
\* 1 by position, a repeated ID keeping its first grade, other IDs 0) and
\* divides by the IDCG of the GT's own grades in descending order; GT IDs
\* after the third do not change the score; the score of an empty GT is 0.0.
C7_GradesFromFirstThreeGt ==
    /\ fn = "_ndcg_at_3" =>
           /\ ret.val = ExpectedNdcg(locals.pred, locals.gt)
           /\ Len(locals.gt) > 3 => ret.val = ExpectedNdcg(locals.pred, FirstThree(locals.gt))
           /\ locals.gt = <<>> => ret.val = F_0_0
    /\ (fn = "prompt1_reward" /\ Returned) =>
           \A j \in 1..Len(completions) :
               (ValidSelection(ExtractedInts(completions[j])) /\ FindAllDigits(assistant[j]) # <<>>) =>
                   /\ locals.ndcg_scores[j] =
                          ExpectedNdcg(ExtractedInts(completions[j]), ExtractedInts(assistant[j]))
                   /\ \A k \in 1..Len(completions) :
                          (/\ ExtractedInts(completions[k]) = ExtractedInts(completions[j])
                           /\ FindAllDigits(assistant[k]) # <<>>
                           /\ FirstThree(ExtractedInts(assistant[k])) = FirstThree(ExtractedInts(assistant[j])))
                          => locals.ndcg_scores[k] = locals.ndcg_scores[j]

\* One prediction scored against [5, 5, 2] and against [5, 5, 2, 9]: a
\* repeated GT ID and a fourth GT ID, with the same score strictly inside
\* (0, 1).
C7_Witness ==
    /\ fn = "prompt1_reward"
    /\ Returned
    /\ \E j, k \in 1..Len(completions) :
          /\ FindAllDigits(completions[j]) = <<<<"2">>, <<"5">>, <<"9">>>>
          /\ FindAllDigits(completions[k]) = <<<<"2">>, <<"5">>, <<"9">>>>
          /\ FindAllDigits(assistant[j]) = <<<<"5">>, <<"5">>, <<"2">>>>
          /\ FindAllDigits(assistant[k]) = <<<<"5">>, <<"5">>, <<"2">>, <<"9">>>>
          /\ locals.ndcg_scores[j] = locals.ndcg_scores[k]
          /\ FLt(F_0_0, locals.ndcg_scores[j])
          /\ FLt(locals.ndcg_scores[j], F_1_0)

\* A match of the tuple pattern that is a valid record: a positive Cn, the
\* three tokens in their vocabularies once normalized, a non-empty En.
TupleWellFormed(g) ==
    /\ Len(g[1]) <= INT_MAX_STR_DIGITS
    /\ DecValue(g[1]) > 0
    /\ _normalize_time(g[2]).kind = "ok"
    /\ _normalize_freq(g[3]).kind = "ok"
    /\ _normalize_phon(g[4]).kind = "ok"
    /\ Strip(g[5]) # <<>>

\* A text with exactly 3 matches of the tuple pattern, each a valid record,
\* of pairwise-distinct Cn.
ThreeWellFormed(text) ==
    LET m == RegionFindAll(text)
    IN  /\ Len(m) = 3
        /\ \A k \in 1..3 : TupleWellFormed(m[k])
        /\ \A j, k \in 1..3 : j # k => DecValue(m[j][1]) # DecValue(m[k][1])

\* The records of such a text.
ParsedTuples(text) ==
    LET m == RegionFindAll(text)
    IN  [k \in 1..3 |-> [Cn |-> PyStr(DecValue(m[k][1])),
                         T  |-> _normalize_time(m[k][2]).val,
                         F  |-> _normalize_freq(m[k][3]).val,
                         P  |-> _normalize_phon(m[k][4]).val,
                         En |-> Strip(m[k][5])]]

\* C8: _parse_region_tuples returns the 3 records (positive pairwise-distinct
\* Cn, T, F and P in their vocabularies, non-empty En) of a text with exactly
\* 3 well-formed tuples, and None for a text with more or fewer tuple-like
\* matches, a repeated or non-positive Cn, a token that does not normalize,
\* or an empty En.
C8_ParseRegionTuples ==
    (fn = "_parse_region_tuples" /\ ~Raised(ret)) =>
        /\ ret.kind = (IF ThreeWellFormed(locals.text) THEN "ok" ELSE "None")
        /\ Returned =>
               /\ Len(ret.val) = 3
               /\ ret.val = ParsedTuples(locals.text)
               /\ \A k \in 1..3 :
                      /\ DecValue(ret.val[k].Cn) > 0
                      /\ ret.val[k].T \in TIME_LABELS
                      /\ ret.val[k].F \in FREQ_LABELS
                      /\ ret.val[k].P \in PHON_LABELS
                      /\ ret.val[k].En # <<>>
               /\ \A j, k \in 1..3 : j # k => ret.val[j].Cn # ret.val[k].Cn

\* A text parsed to 3 records, one of them with a frequency token folded to
\* "mid" from another spelling.
C8_Witness ==
    /\ fn = "_parse_region_tuples"
    /\ Returned
    /\ Len(ret.val) = 3
    /\ \E k \in 1..3 :
          /\ ret.val[k].F = <<"m", "i", "d">>
          /\ RegionFindAll(locals.text)[k][3] # <<"m", "i", "d">>

\* 0.75 * accuracy + 0.25 * consistency + 0.1 * format of one region
RegionScore(r) ==
    FAdd(FAdd(FMul(F_0_75, r.region_acc), FMul(F_0_25, r.region_cons)), FMul(F_0_1, r.region_fmt))

\* C9: prompt2_reward of a pair is 0.0 when the completion or the GT does
\* not parse into exactly 3 valid tuples; otherwise it is the mean over the
\* completion's 3 regions of 0.75 * accuracy + 0.25 * consistency + 0.1 *
\* format with format 1.0 for every region; every non-zero reward is at
\* least 0.1.
C9_Prompt2Reward ==
    (fn = "prompt2_reward" /\ Returned) =>
        \A k \in 1..Len(completions) :
            /\ (~ThreeWellFormed(completions[k]) \/ ~ThreeWellFormed(assistant[k])) =>
                   ret.val[k] = F_0_0
            /\ (ThreeWellFormed(completions[k]) /\ ThreeWellFormed(assistant[k])) =>
                   /\ Len(locals[k]) = 3
                   /\ \A i \in 1..3 : locals[k][i].region_fmt = F_1_0
                   /\ ret.val[k] =
                          FDiv(FAdd(FAdd(FAdd(F_0_0, RegionScore(locals[k][1])),
                                         RegionScore(locals[k][2])),
                                    RegionScore(locals[k][3])), F_3_0)
            /\ ret.val[k] # F_0_0 => FLe(F_0_1, ret.val[k])

\* A completion of 3 valid tuples with accuracy 0 and consistency 0 in every
\* region, scored at least 0.1 against a GT that parses and 0.0 against a GT
\* that does not.
C9_Witness ==
    /\ fn = "prompt2_reward"
    /\ Returned
    /\ \E j, k \in 1..Len(completions) :
          /\ completions[j] = completions[k]
          /\ ThreeWellFormed(completions[j])
          /\ ThreeWellFormed(assistant[j])
          /\ \A i \in 1..3 : locals[j][i].region_acc = F_0_0 /\ locals[j][i].region_cons = F_0_0
          /\ ret.val[j] # F_0_0
          /\ FLe(F_0_1, ret.val[j])
          /\ ~ThreeWellFormed(assistant[k])
          /\ ret.val[k] = F_0_0

\* 2^-50
F_EPS == FMul(FDiv(F_1_0, FInt(2 ^ 25)), FDiv(F_1_0, FInt(2 ^ 25)))

\* |x - y| <= 2^-50
CloseTo(x, y) == FLe(x, FAdd(y, F_EPS)) /\ FLe(y, FAdd(x, F_EPS))

\* Two pairs of the batch with the same GT whose completions hold the same
\* 3 tuples, in any order.
Reordered(j, k) ==
    /\ assistant[j] = assistant[k]
    /\ ThreeWellFormed(assistant[j])
    /\ ThreeWellFormed(completions[j])
    /\ ThreeWellFormed(completions[k])
    /\ SeqToSet(ParsedTuples(completions[j])) = SeqToSet(ParsedTuples(completions[k]))

\* The accuracy of a predicted record against the GT records: the matching
\* fields over 3 for the GT record of the same Cn, 0.0 when there is none.
ExpectedAccuracy(p, g) ==
    LET same == {j \in 1..3 : g[j].Cn = p.Cn}
        Hits(q) == Cardinality({f \in {"T", "F", "P"} : p[f] = q[f]})
    IN  IF same = {} THEN F_0_0
        ELSE FDiv(FInt(Hits(g[CHOOSE j \in same : TRUE])), F_3_0)

\* C10 (as stated, its last sentence): reordering the 3 tuples of a
\* completion does not change the reward.
C10_ReorderKeepsReward ==
    (fn = "prompt2_reward" /\ Returned) =>
        \A j, k \in 1..Len(completions) : Reordered(j, k) => ret.val[j] = ret.val[k]

\* C10 (amended): the accuracy of a region is the number of fields among
\* T, F, P equal to those of the GT tuple with the same Cn, over 3, and 0.0
\* when no GT tuple has that Cn, the region keeping its consistency and
\* format terms; reordering the 3 tuples of a completion leaves the
\* per-region terms unchanged and changes the reward by at most the rounding
\* of the sum (2^-50).
C10_AccuracyAlignedByCn ==
    (fn = "prompt2_reward" /\ Returned) =>
        /\ \A k \in 1..Len(completions) :
               (ThreeWellFormed(completions[k]) /\ ThreeWellFormed(assistant[k])) =>
                   \A i \in 1..3 :
                       /\ locals[k][i].Cn = ParsedTuples(completions[k])[i].Cn
                       /\ locals[k][i].region_acc =
                              ExpectedAccuracy(ParsedTuples(completions[k])[i],
                                               ParsedTuples(assistant[k]))
                       /\ locals[k][i].region_cons =
                              _region_consistency(ParsedTuples(completions[k])[i])
                       /\ locals[k][i].region_fmt = F_1_0
        /\ \A j, k \in 1..Len(completions) :
               Reordered(j, k) =>
                   /\ SeqToSet(locals[j]) = SeqToSet(locals[k])
                   /\ CloseTo(ret.val[j], ret.val[k])

\* Two orders of the same 3 tuples, one of a Cn absent from the GT with
\* accuracy 0.0 and a positive consistency, whose rewards differ in the
\* last bits.
C10_Witness ==
    /\ fn = "prompt2_reward"
    /\ Returned
    /\ \E j, k \in 1..Len(completions) :
          /\ Reordered(j, k)
          /\ ret.val[j] # ret.val[k]
          /\ CloseTo(ret.val[j], ret.val[k])
          /\ \E i \in 1..3 :
                /\ \A g \in 1..3 : ParsedTuples(assistant[j])[g].Cn # locals[j][i].Cn
                /\ locals[j][i].region_acc = F_0_0
                /\ FLt(F_0_0, locals[j][i].region_cons)

\* The ablation reward of a pair that parses: three terms 0.0 * acc + 0.0 *
\* cons + 0.1 * 1.0 added from 0.0, then divided by 3.0.
AblationScore ==
    LET t == FAdd(FAdd(FMul(F_0_0, F_1_0), FMul(F_0_0, F_1_0)), FMul(F_0_1, F_1_0))
    IN  FDiv(FAdd(FAdd(FAdd(F_0_0, t), t), t), F_3_0)

NormalizeFunctions == {"_normalize_time", "_normalize_freq", "_normalize_phon"}

NormalizeBy(f, value) ==
    CASE f = "_normalize_time" -> _normalize_time(value)
      [] f = "_normalize_freq" -> _normalize_freq(value)
      [] OTHER -> _normalize_phon(value)

LabelsOf(f) ==
    CASE f = "_normalize_time" -> TIME_LABELS
      [] f = "_normalize_freq" -> FREQ_LABELS
      [] OTHER -> PHON_LABELS

UpperChar(c) == IF \E d \in UpperCase : LowerChar(d) = c /\ c \in LowerCase
                THEN CHOOSE d \in UpperCase : LowerChar(d) = c
                ELSE c
Upper(t) == [i \in 1..Len(t) |-> UpperChar(t[i])]

RECURSIVE WidenSpaces(_)
\* every whitespace character replaced by a run of three
WidenSpaces(t) ==
    IF t = <<>> THEN <<>>
    ELSE (IF IsSpace(Head(t)) THEN <<"\t", Head(t), " ">> ELSE <<Head(t)>>) \o WidenSpaces(Tail(t))

RECURSIVE HyphensTo(_, _)
\* every hyphen replaced by the sequence sep
HyphensTo(t, sep) ==
    IF t = <<>> THEN <<>>
    ELSE (IF Head(t) = "-" THEN sep ELSE <<Head(t)>>) \o HyphensTo(Tail(t), sep)

NON_SPEECH == <<"n", "o", "n", "-", "s", "p", "e", "e", "c", "h">>

MatchStarts(text, entry) ==
    UNION {{i - 1 : i \in PatternStarts(text, entry.patterns[p])} : p \in 1..Len(entry.patterns)}

RECURSIVE MatchCount(_, _, _)
\* total number of matches, summed over the patterns of entry from p on
MatchCount(text, entry, p) ==
    IF p > Len(entry.patterns) THEN 0
    ELSE Cardinality(PatternStarts(text, entry.patterns[p])) + MatchCount(text, entry, p + 1)

Reversed(s) == [i \in 1..Len(s) |-> s[Len(s) + 1 - i]]

\* two labels with the same positive count and the same first position
FullTie(text, lexicon) ==
    \E a, b \in 1..Len(lexicon) :
        /\ a # b
        /\ MatchCount(text, lexicon[a], 1) > 0
        /\ MatchCount(text, lexicon[a], 1) = MatchCount(text, lexicon[b], 1)
        /\ MinOf(MatchStarts(text, lexicon[a])) = MinOf(MatchStarts(text, lexicon[b]))

\* C13: _extract_label_by_lexicon returns None exactly when no label of the
\* lexicon matches the text; otherwise a label with the greatest total match
\* count whose earliest match is the first among the labels of that count;
\* the result is the same for the reversed lexicon unless two labels tie on
\* both count and first position.
C13_LexiconMostMatchesThenEarliest ==
    fn = "_extract_label_by_lexicon" =>
        LET text == Lower(locals.en_text)
            lex == locals.lexicon
            n(k) == MatchCount(text, lex[k], 1)
            first(k) == MinOf(MatchStarts(text, lex[k]))
        IN  /\ ret.kind \in {"ok", "None"}
            /\ ret.kind = "None" <=> \A k \in 1..Len(lex) : n(k) = 0
            /\ ret.kind = "ok" =>
                   \E k \in 1..Len(lex) :
                       /\ ret.val = lex[k].label
                       /\ n(k) > 0
                       /\ \A j \in 1..Len(lex) : n(j) <= n(k)
                       /\ \A j \in 1..Len(lex) : n(j) = n(k) => first(k) <= first(j)
            /\ ~FullTie(text, lex) =>
                   _extract_label_by_lexicon(locals.en_text, Reversed(lex)) = ret

\* a count tie between two labels, decided for the later label of the
\* lexicon by its earlier first match
C13_Witness ==
    /\ fn = "_extract_label_by_lexicon"
    /\ locals.lexicon = TIME_LEXICON
    /\ locals.en_text = <<"s", "i", "l", "e", "n", "c", "e", " ", "b", "e", "f", "o", "r", "e", " ", "s", "p", "e", "e", "c", "h">>
    /\ ret = PyOk(NON_SPEECH)
    /\ MatchCount(Lower(locals.en_text), TIME_LEXICON[1], 1) = 1
    /\ MatchCount(Lower(locals.en_text), TIME_LEXICON[2], 1) = 1

\* ---------------------------------------------------------------------
\* Ground truth given as labelled lines

RECURSIVE LabelLines(_, _)
\* The records from k on written as labelled lines: Cn: .. / T: .. / F: .. /
\* P: .. / En: .., one field per line.
LabelLines(records, k) ==
    IF k > Len(records) THEN <<>>
    ELSE LET r == records[k]
         IN  <<"C", "n", ":", " ">> \o r.Cn \o <<"\n", "T", ":", " ">> \o r.T \o <<"\n", "F", ":", " ">> \o r.F \o <<"\n", "P", ":", " ">> \o r.P \o <<"\n", "E", "n", ":", " ">> \o r.En
             \o (IF k < Len(records) THEN <<"\n">> ELSE <<>>)
             \o LabelLines(records, k + 1)

\* C14: a well-formed completion scored by prompt2_reward against the
\* ground truth holding the same records as labelled lines gets a non-zero
\* reward.
C14_LabelLineGtScored ==
    (fn = "prompt2_reward" /\ Returned) =>
        \A k \in 1..Len(completions) :
            (/\ ThreeWellFormed(completions[k])
             /\ assistant[k] = LabelLines(ParsedTuples(completions[k]), 1))
                => ret.val[k] # F_0_0

\* ---------------------------------------------------------------------
\* Ranking metrics

\* C15: for len(pred) >= k >= 1, recall_at_k is in [0, 1], is the number of
\* positions among the first k whose item is in set(gt) divided by k, and is
\* 1.0 exactly when every one of the first k items is in set(gt).
C15_RecallAtK ==
    (fn = "recall_at_k" /\ locals.k >= 1 /\ Len(locals.pred) >= locals.k) =>
        LET G == SeqToSet(locals.gt)
            inG == {j \in 1..locals.k : locals.pred[j] \in G}
        IN  /\ Returned
            /\ InUnit(ret.val)
            /\ ret.val = FDiv(FInt(Cardinality(inG)), FInt(locals.k))
            /\ ret.val = F_1_0 <=> inG = 1..locals.k

C15_Witness ==
    /\ fn = "recall_at_k"
    /\ locals = [pred |-> <<1, 3, 2>>, gt |-> <<1, 2>>, k |-> 3]
    /\ ret = PyOk(FDec(2, 3))

RECURSIVE IdealDcg(_)
\* 1/log2(2) + ... + 1/log2(m + 1), added in this order from 0.0
IdealDcg(m) ==
    IF m = 0 THEN F_0_0 ELSE FAdd(IdealDcg(m - 1), FDiv(F_1_0, math_log2(m + 1)))

RECURSIVE BinaryDcg(_, _, _)
\* the terms 1/log2(j + 1) of the positions j <= k holding an item of G
BinaryDcg(pred, G, k) ==
    IF k = 0 THEN F_0_0
    ELSE FAdd(BinaryDcg(pred, G, k - 1),
              IF pred[k] \in G THEN FDiv(F_1_0, math_log2(k + 1)) ELSE F_0_0)

\* C16: for len(pred) >= k, ndcg_at_k is 0.0 when gt is empty; otherwise it
\* is the binary DCG of the first k positions divided by the DCG of
\* min(k, |set(gt)|) leading relevant positions; it is 1.0 when the first
\* min(k, |set(gt)|) >= 1 positions hold distinct GT items, in any order, and
\* the other positions up to k hold none.
C16_BinaryNdcgAtK ==
    (fn = "ndcg_at_k" /\ Len(locals.pred) >= locals.k) =>
        LET pred == locals.pred
            k == locals.k
            G == SeqToSet(locals.gt)
            m == IF k < Cardinality(G) THEN k ELSE Cardinality(G)
        IN  /\ Returned
            /\ G = {} => ret.val = F_0_0
            /\ m >= 1 => ret.val = FDiv(BinaryDcg(pred, G, k), IdealDcg(m))
            /\ (/\ m >= 1
                /\ \A j \in 1..m : pred[j] \in G
                /\ \A i, j \in 1..m : i # j => pred[i] # pred[j]
                /\ \A j \in (m + 1)..k : pred[j] \notin G)
                   => ret.val = F_1_0

C16_Witness ==
    /\ fn = "ndcg_at_k"
    /\ locals = [pred |-> <<2, 1, 3>>, gt |-> <<1, 2>>, k |-> 3]
    /\ ret = PyOk(F_1_0)

RECURSIVE PrecisionSum(_, _, _)
\* the sum, over the positions j <= n of pred holding an item of G, of
\* (number of positions i <= j holding an item of G) / j
PrecisionSum(pred, G, n) ==
    IF n = 0 THEN F_0_0
    ELSE FAdd(PrecisionSum(pred, G, n - 1),
              IF pred[n] \in G
              THEN FDiv(FInt(Cardinality({i \in 1..n : pred[i] \in G})), FInt(n))
              ELSE F_0_0)

ExpectedAp(pred, gt) ==
    IF gt = <<>> \/ pred = <<>> THEN F_0_0
    ELSE FDiv(PrecisionSum(pred, SeqToSet(gt), Len(pred)), FInt(Cardinality(SeqToSet(gt))))

RECURSIVE ApSum(_, _, _)
ApSum(preds, gts, n) ==
    IF n = 0 THEN F_0_0 ELSE FAdd(ApSum(preds, gts, n - 1), ExpectedAp(preds[n], gts[n]))

\* C17: average_precision returns 0.0 when gt is empty and when pred is
\* empty, and otherwise the sum of hits-so-far / j over every position j of
\* the whole of pred that holds a GT item, divided by |set(gt)|;
\* mean_average_precision of a non-empty list of samples is the sum of these
\* values divided by the number of samples.
C17_AveragePrecision ==
    /\ fn = "average_precision" =>
           /\ Returned
           /\ ret.val = ExpectedAp(locals.pred, locals.gt)
    /\ (fn = "mean_average_precision" /\ Len(locals.preds) >= 1) =>
           /\ Returned
           /\ ret.val = FDiv(ApSum(locals.preds, locals.gts, Len(locals.preds)),
                             FInt(Len(locals.preds)))

\* two samples with average precision 0.5 (a hit at position 2 only, beyond
\* |set(gt)| = 1) and 1.0
C17_Witness ==
    /\ fn = "mean_average_precision"
    /\ locals = [preds |-> <<<<3, 1>>, <<1, 2, 3>>>>, gts |-> <<<<1>>, <<1, 2>>>>]
    /\ ret = PyOk(F_0_75)

\* ---------------------------------------------------------------------
\* Bucket classifier

BucketNames ==
    {"wrong0", "one_correct_order", "one_not_order", "two_correct_order",
     "two_not_order", "three_correct_order", "three_not_order"}

\* the bucket of n hits, in GT order or not
HitBucket(n, ordered) ==
    CASE n = 1 -> IF ordered THEN "one_correct_order" ELSE "one_not_order"
      [] n = 2 -> IF ordered THEN "two_correct_order" ELSE "two_not_order"
      [] n = 3 -> IF ordered THEN "three_correct_order" ELSE "three_not_order"

\* number of predicted items present in the GT
HitCount(gt, pred) == Cardinality({i \in 1..Len(pred) : \E j \in 1..Len(gt) : pred[i] = gt[j]})

\* number of positions among the first 3 where pred and gt agree
InPlaceCount(gt, pred) ==
    Cardinality({i \in 1..3 : i <= Len(pred) /\ i <= Len(gt) /\ pred[i] = gt[i]})

\* C18: _bucket returns one of the 7 bucket names or "invalid", determined
\* by c (predicted IDs present in the GT) and p (positions among the first 3
\* where pred[i] = gt[i]): wrong0 for c = 0, the n-hit correct_order bucket
\* for c = n in 1..3 and p = n, the n-hit not_order bucket for c = n and
\* p # n, invalid for c > 3; for GT [1,2,3] the predictions [1,2,3],
\* [3,2,1], [1,5,6], [5,6,7] fall in three_correct_order, three_not_order,
\* one_correct_order, wrong0.
C18_BucketByHitsAndOrder ==
    fn = "_bucket" =>
        LET c == HitCount(locals.gt, locals.pred)
            p == InPlaceCount(locals.gt, locals.pred)
        IN  /\ Returned
            /\ ret.val \in BucketNames \cup {"invalid"}
            /\ c = 0 => ret.val = "wrong0"
            /\ c \in 1..3 => ret.val = HitBucket(c, p = c)
            /\ c > 3 => ret.val = "invalid"
            /\ locals.gt = <<1, 2, 3>> =>
                   /\ locals.pred = <<1, 2, 3>> => ret.val = "three_correct_order"
                   /\ locals.pred = <<3, 2, 1>> => ret.val = "three_not_order"
                   /\ locals.pred = <<1, 5, 6>> => ret.val = "one_correct_order"
                   /\ locals.pred = <<5, 6, 7>> => ret.val = "wrong0"

\* more than 3 hits: a 4-item prediction with a repeated GT ID
C18_Witness ==
    /\ fn = "_bucket"
    /\ locals = [gt |-> <<1, 2, 3>>, pred |-> <<1, 2, 3, 1>>]
    /\ ret = PyOk("invalid")

\* ---------------------------------------------------------------------
\* The METEOR wrapper

\* every pipe operation of a call, and its release, happens with the lock held
LockHeldInCall ==
    \A t \in Threads : thread[t].pc \in {"write", "read_stats", "read_scalar", "release"} => lock = t

\* a thread outside a call, or waiting for the lock, does not hold it
LockFreeOutsideCall ==
    /\ lock \in {0} \cup Threads
    /\ \A t \in Threads : thread[t].pc \in {"idle", "acquire"} => lock # t

\* while the subprocess runs, a request it has still to answer and a
\* response line not yet read belong to the call that holds the lock
LinesBelongToHolder ==
    proc.alive =>
        /\ \A k \in 1..Len(stdout) : stdout[k].kind # "noise" => stdout[k].by = lock
        /\ \A k \in 1..Len(stdin) : stdin[k].by = lock

\* C19: for any interleaving of threads calling compute_score or _score, the
\* lock is held from before the request line is written until all response
\* lines of the request have been read, so that lines of two calls never
\* interleave, and it is released on every exit path.
C19_LockProtocol ==
    /\ LockHeldInCall
    /\ LockFreeOutsideCall
    /\ LinesBelongToHolder

\* C20: no call of compute_score or _score blocks indefinitely: every call
\* that has started returns or raises, whether the subprocess prints the
\* aggregate score line after an EVAL request or not.
C20_EveryCallEnds ==
    \A t \in Threads : (thread[t].pc # "idle") ~> (thread[t].pc = "idle")

\* The same for a subprocess that prints the aggregate line.
CallsEndWithAggregate ==
    proc.aggregate = 1 => C20_EveryCallEnds

\* No read loop makes more than max_reads attempts.
ReadAttemptsBounded ==
    \A t \in Threads : thread[t].attempts \in 0..MAX_READS

(***************************************************************************)
(* Caption score failure policies.                                         *)
(***************************************************************************)

\* The value _caption_scores reports for a scorer that was called: its score,
\* or None when it raised or was never called.
ReportedIfComputed(name, outcome) ==
    IF \E j \in 1..Len(locals.calls) : locals.calls[j] = name
    THEN IF Raised(outcome) THEN PyNone ELSE outcome
    ELSE PyNone

\* In strict mode (the default) a failing scorer makes the call raise
\* RuntimeError; BERTScore is attempted whenever the call gets past the first
\* block, also after a ROUGE-L/METEOR failure in lenient mode; in lenient mode
\* the call never raises and a failed metric is None.
CaptionPolicies ==
    (fn = "_caption_scores" /\ locals.gt_caps # <<>>) =>
        /\ locals.strict = (locals.argv = <<>> \/ locals.argv[Len(locals.argv)] = "--strict-caption-metrics")
        /\ locals.strict =>
              (ret = PyRaise("RuntimeError")) =
                  (\/ Raised(locals.env.rouge_l_score)
                   \/ Raised(locals.env.meteor_score)
                   \/ Raised(locals.env.bert_score))
        /\ ~locals.strict =>
              /\ ret.kind = "ok"
              /\ locals.calls[Len(locals.calls)] = "bert_score"
              /\ Raised(locals.env.rouge_l_score) => ret.val.ROUGE_L = PyNone
              /\ Raised(locals.env.meteor_score) => ret.val.METEOR = PyNone
              /\ Raised(locals.env.bert_score) => ret.val.BERTScore_F1 = PyNone
              /\ ~Raised(locals.env.bert_score) => ret.val.BERTScore_F1 = locals.env.bert_score

\* C21: _caption_scores is strict by default and then re-raises any scorer
\* failure as RuntimeError; in lenient mode it never raises, reports None for
\* each metric that failed and the value of each metric that was computed, and
\* still attempts BERTScore after a ROUGE-L/METEOR failure.
C21_CaptionFailurePolicies ==
    /\ CaptionPolicies
    /\ (fn = "_caption_scores" /\ locals.gt_caps # <<>> /\ ~locals.strict) =>
          /\ ret.kind = "ok"
          /\ ret.val.ROUGE_L = ReportedIfComputed("rouge_l_score", locals.env.rouge_l_score)
          /\ ret.val.METEOR = ReportedIfComputed("meteor_score", locals.env.meteor_score)
          /\ ret.val.BERTScore_F1 = ReportedIfComputed("bert_score", locals.env.bert_score)

(***************************************************************************)
(* The prompt2_target round trip from the dataset builder to the evaluator.*)
(***************************************************************************)

\* The evaluator has read the target built for 3 distinct region IDs.
BuiltTargetRead ==
    /\ fn = "_normalize_gt_prompt2_target"
    /\ Len(locals.region_ids) = 3
    /\ Cardinality(SeqToSet(locals.region_ids)) = 3

\* The evaluator's records are the builder's: accepted, 3 records in the
\* builder's order, each with the region ID, the labels of the region table
\* (in the vocabulary's lower case) and the explanation text (stripped).
SameRecords ==
    /\ locals.gt_norm.kind = "ok"
    /\ ret.kind = "ok"
    /\ Len(ret.val) = 3
    /\ \A k \in 1..3 :
          LET rid == locals.region_ids[k]
              info == DictGet(locals.region_lookup, rid, <<>>)
              rec == ret.val[k].value
          IN  /\ rec.Cn = PyStr(rid)
              /\ rec.T = PyOk(Lower(info.T))
              /\ rec.F = PyOk(Lower(info.F))
              /\ rec.P = PyOk(Lower(info.P))
              /\ rec.En = Strip(DictGet(locals.explanation_files, rid, <<>>))

\* Some explanation text of the sample holds one of the characters of S.
SomeTextHolds(S) ==
    \E k \in 1..Len(locals.explanation_files) :
        \E j \in 1..Len(locals.explanation_files[k].value) :
            locals.explanation_files[k].value[j] \in S

\* The round trip holds for explanation texts without ";" and ")", and a text
\* with ";" makes the evaluator reject the target.
RoundTripWithoutDelimiters ==
    BuiltTargetRead =>
        /\ ~SomeTextHolds({";", ")"}) => SameRecords
        /\ SomeTextHolds({";"}) => locals.gt_norm = PyNone

\* C29: every prompt2_target built by _build_prompt2_target for 3 distinct
\* region IDs, with any explanation text, is accepted by
\* _normalize_gt_prompt2_target and gives exactly 3 records with the same
\* region IDs, T/F/P values and explanation texts.
C29_BuiltTargetRoundTrip == BuiltTargetRead => SameRecords

\* ---------------------------------------------------------------------
\* Skip accounting of the batch evaluation drivers

\* The skips a localization summary reports.
ReportedSkips(stats) ==
    stats.skipped_missing_gt
        + (IF "skipped_missing_pred" \in DOMAIN stats THEN stats.skipped_missing_pred ELSE 0)

\* The number of per-sample rows with status "ok".
OkSamples(samples) == Cardinality({i \in 1..Len(samples) : samples[i].status = "ok"})

\* The three identities as the summaries state them hold whenever a summary
\* is written: files of eval_prompt2_reward_json, loaded records of the
\* localization drivers, common ids of eval_grpo2_synth_pred_mix.
SummaryIdentities ==
    /\ (fn = "eval_prompt2_reward_json" /\ ret.kind = "ok") =>
           /\ ret.val.summary.num_files = Len(locals.paths)
           /\ ret.val.summary.num_files =
                  ret.val.summary.num_unreadable + ret.val.summary.num_invalid_gt
                      + OkSamples(ret.val.samples)
    /\ fn = "eval_localization" =>
           /\ ret.kind = "ok"
           /\ ret.val.stats.total_records =
                  ret.val.stats.used_records + ReportedSkips(ret.val.stats)
    /\ (fn = "eval_grpo2_synth_pred_mix" /\ ret.kind = "ok") =>
           ret.val.num_common_ids =
               ret.val.bad_gt_parse + ret.val.bad_pred_parse + ret.val.used_for_bucketing

\* An unreadable file or an invalid record alone never aborts
\* eval_prompt2_reward_json: it raises only for an empty root or, in strict
\* mode, for a failed caption scorer.
Prompt2AbortsOnlyForConfiguration ==
    (fn = "eval_prompt2_reward_json" /\ Raised(ret)) =>
        \/ locals.paths = <<>>
        \/ locals.strict /\ locals.gt_caps # <<>> /\ Raised(locals.env.meteor_score)

\* C22: in every batch evaluation driver an unreadable file or a record
\* missing a required field is skipped and counted in the summary, so the
\* number of input files equals the used records plus the reported skips.
C22_InputsAreUsedOrCounted ==
    /\ SummaryIdentities
    /\ fn = "eval_localization" =>
           Len(locals.files) = ret.val.stats.used_records + ReportedSkips(ret.val.stats)

\* ---------------------------------------------------------------------
\* Padding of short predictions

\* The least integer from lo upward that is not in S.
LeastFree(lo, S) == CHOOSE v \in lo..(lo + Cardinality(S)) : v \notin S /\ \A u \in lo..(v - 1) : u \in S

\* C24: _pad_missing_with_impossible returns a long enough prediction
\* unchanged and otherwise the prediction followed by the least unused IDs
\* from 99 upward, to exactly the target length; _safe_pred_for_at_k pads with
\* the sentinel -10^9 only; against a GT of region IDs in 1..16 no padded
\* element is a hit of recall_at_k, ndcg_at_k or average_precision.
C24_PaddingNeverHits ==
    fn = "_pad_missing_with_impossible" =>
        LET pred == locals.pred
            n == locals.n
            gt == locals.gt
            out == ret.val.padded
            safe == ret.val.safe
            len == Len(pred)
            zeros == pred \o [j \in 1..(n - len) |-> 0]
        IN  /\ len >= n => out = pred /\ safe = pred
            /\ len < n =>
                   /\ Len(out) = n /\ Len(safe) = n
                   /\ SubSeq(out, 1, len) = pred /\ SubSeq(safe, 1, len) = pred
                   /\ \A j \in (len + 1)..n :
                          /\ safe[j] = 0 - 1000000000
                          /\ out[j] = LeastFree(IF j = len + 1 THEN 99 ELSE out[j - 1] + 1,
                                                SeqToSet(pred))
                          /\ out[j] >= 99
                          /\ \A i \in 1..(j - 1) : out[i] # out[j]
                   /\ \A j \in (len + 1)..n : out[j] \notin SeqToSet(gt) /\ safe[j] \notin SeqToSet(gt)
                   /\ ret.val.recall = recall_at_k(pred, gt, n)
                   /\ ret.val.ap = average_precision(pred, gt)
                   /\ ret.val.ndcg = ndcg_at_k(zeros, gt, n)
                   /\ ret.val.safe_ndcg = ret.val.ndcg

\* A prediction that already holds 99 and a GT ID is padded.
C24_Witness ==
    /\ fn = "_pad_missing_with_impossible"
    /\ locals.pred = <<5, 99>> /\ locals.n = 3 /\ locals.gt = <<5, 16>>
    /\ ret.val.padded = <<5, 99, 100>>
    /\ ret.val.safe = <<5, 99, 0 - 1000000000>>

\* ---------------------------------------------------------------------
\* Range of the metrics the localization drivers report

\* Every per-sample nDCG and AP of a driver run and the reported means are at
\* most 1 (no metric is negative: the code never subtracts).
DriverMetricsAtMostOne ==
    /\ \A i \in 1..Len(locals.preds) :
           /\ FLe(ndcg_at_k(_safe_pred_for_at_k(locals.preds[i], locals.k),
                            locals.gts[i], locals.k).val, F_1_0)
           /\ FLe(average_precision(locals.preds[i], locals.gts[i]).val, F_1_0)
    /\ FLe(ret.val.metrics.ndcg, F_1_0)
    /\ FLe(ret.val.metrics.mean_ap, F_1_0)
    /\ FLe(ret.val.metrics.map, F_1_0)

\* With the first-3-unique normalization of the SFT driver the predictions
\* have no repeated ID and at most 3 items, and the metrics stay within 1.
NormalizedMetricsAtMostOne ==
    (fn = "eval_localization" /\ ret.val.normalization = "first_3_unique_from_response")
        => DriverMetricsAtMostOne

\* C30: for every prediction list the localization drivers pass to the
\* ranking metrics, repeated IDs and lists longer than k included, ndcg_at_k
\* and average_precision and the reported mean nDCG, mean AP and MAP lie in
\* [0, 1].
C30_DriverMetricsWithinUnit ==
    fn = "eval_localization" => DriverMetricsAtMostOne

\* ---------------------------------------------------------------------
\* Configuration errors of the synthetic builder and its evaluation

\* What is wrong with each specification of WeightSpecs, in order: nothing,
\* no item at all, an item without ":" or with a weight that is no number,
\* or a sum of weights that is not positive.
WeightSpecFaults ==
    <<"none", "none", "empty", "malformed", "malformed", "sum", "sum", "none", "none",
      "malformed", "malformed", "none", "none">>

\* The wrong IDs a case asks sample_wrong for.
WrongNeeded(case) ==
    CASE case = "wrong0" -> 3
      [] case \in {"one_correct_order", "one_not_order"} -> 2
      [] case \in {"two_correct_order", "two_not_order"} -> 1
      [] OTHER -> 0

KnownCases ==
    {"three_correct_order", "wrong0", "three_not_order", "one_correct_order",
     "two_correct_order", "one_not_order", "two_not_order"}

\* The IDs of the pool outside the GT.
WrongCandidates == SeqToSet(locals.pool) \ SeqToSet(locals.gt)

\* C23: parse_mix and _parse_target_weights raise ValueError when the weight
\* specification is empty, malformed or sums to <= 0, and return otherwise;
\* make_case raises ValueError exactly for an unknown case name and for a
\* case that needs more wrong IDs than the pool holds outside the GT, before
\* any shuffle, and what it returns has 3 IDs of which exactly the needed
\* number are wrong IDs, all taken from the pool outside the GT.
C23_ConfigurationErrorsRaise ==
    /\ fn \in {"parse_mix", "_parse_target_weights"} =>
           \A k \in 1..Len(WeightSpecs) :
               locals.spec = WeightSpecs[k] =>
                   /\ WeightSpecFaults[k] # "none" => ret.kind = "ValueError"
                   /\ WeightSpecFaults[k] = "none" => ret.kind = "ok" /\ ret.val # <<>>
    /\ fn = "make_case" =>
           LET short == Cardinality(WrongCandidates) < WrongNeeded(locals.case)
               bad == locals.case \notin KnownCases \/ short
           IN  /\ locals.pc = "loop" => ~bad
               /\ locals.pc = "done" =>
                      /\ bad <=> ret.kind = "ValueError"
                      /\ ~bad =>
                             /\ ret.kind = "ok"
                             /\ Len(ret.val) = 3
                             /\ Cardinality({i \in 1..3 : ret.val[i] \notin SeqToSet(locals.gt)})
                                    = WrongNeeded(locals.case)
                             /\ \A i \in 1..3 :
                                    ret.val[i] \in SeqToSet(locals.gt) \cup WrongCandidates

\* one_not_order with one wrong ID in the pool raises, and a specification
\* whose weights sum to 0 is refused.
C23_Witness ==
    \/ /\ fn = "make_case"
       /\ locals.case = "one_not_order"
       /\ locals.gt = <<1, 2, 3>>
       /\ locals.pool = <<1, 2, 3, 4>>
       /\ ret.kind = "ValueError"
    \/ /\ fn = "parse_mix"
       /\ locals.spec = WeightSpecs[6]
       /\ ret.kind = "ValueError"

\* ---------------------------------------------------------------------
\* The synthetic generator against the bucket classifier

\* make_case has returned a prediction for a GT of 3 pairwise-distinct IDs.
ReturnedForDistinctGt ==
    /\ fn = "make_case"
    /\ locals.pc = "done"
    /\ ret.kind = "ok"
    /\ Cardinality(SeqToSet(locals.gt)) = 3

\* The returned prediction has 3 pairwise-distinct IDs and _bucket puts it in
\* the bucket that was asked for.
InRequestedBucket ==
    /\ Len(ret.val) = 3
    /\ Cardinality(SeqToSet(ret.val)) = 3
    /\ _bucket(locals.gt, ret.val) = locals.case

\* Every prediction returned without the fallback of a bounded loop is in
\* the requested bucket.
DrawnCasesMatchBucket ==
    (ReturnedForDistinctGt /\ locals.branch # "fallback") => InRequestedBucket

\* C25: for every GT of 3 pairwise-distinct IDs, every pool with enough
\* non-GT IDs and each of the 7 bucket names, every prediction make_case can
\* return, the fallbacks of one_not_order and two_not_order included, has 3
\* pairwise-distinct IDs and is classified by _bucket as that bucket.
C25_GeneratorMatchesBucket ==
    ReturnedForDistinctGt => InRequestedBucket

\* ---------------------------------------------------------------------
\* Termination of make_case

MakeCaseDone == fn = "make_case" /\ locals.pc = "done"

\* A three_not_order call on a triplet of three equal IDs.
ReshuffleOfEqualIds ==
    /\ fn = "make_case"
    /\ locals.case = "three_not_order"
    /\ Cardinality(SeqToSet(locals.gt)) = 1

\* Every other call returns or raises.
OtherCallsTerminate ==
    (fn = "make_case" /\ ~ReshuffleOfEqualIds) ~> MakeCaseDone

\* C26: under a fair random source make_case returns or raises for every
\* bucket name and every triplet extract_triplet can return, triplets with
\* repeated IDs such as [1, 1, 1] included.
C26_MakeCaseTerminates ==
    (fn = "make_case") ~> MakeCaseDone

\* ---------------------------------------------------------------------------
\* Bucket allocation of main
\* ---------------------------------------------------------------------------

\* A run of main that reached the assignment with a mix of positive weights.
AllocatedPositiveMix ==
    /\ fn = "main"
    /\ ret.kind = "ok"
    /\ \A j \in 1..Len(WeightItems(locals.spec).val) :
           WeightItems(locals.spec).val[j].value > 0

\* The number of record indices assign gives to the bucket name.
AssignedTo(assign, name) ==
    Cardinality({j \in 1..Len(assign) : assign[j].value = name})

\* C27: for every record count N >= 0 and every mix of positive weights the
\* count of each bucket is floor or ceil of N * w / sum(w), the counts sum to
\* N, and assign gives every record index 0..N-1 exactly one bucket, each
\* bucket as many indices as its count, so assign[i] is defined for every
\* record.
C27_AllocationCoversEveryRecord ==
    AllocatedPositiveMix =>
        LET w == WeightItems(locals.spec).val
            s == WeightSum(w)
            N == locals.N
            cnt == ret.val.cnt
            assign == ret.val.assign
            Floor(k) == (N * w[k].value) \div s
            Ceil(k) == Floor(k) + (IF (N * w[k].value) % s = 0 THEN 0 ELSE 1)
            RECURSIVE Sum(_)
            Sum(k) == IF k > Len(cnt) THEN 0 ELSE cnt[k].value + Sum(k + 1)
        IN  /\ Len(cnt) = Len(w)
            /\ \A k \in 1..Len(w) :
                   /\ cnt[k].key = w[k].key
                   /\ cnt[k].value \in {Floor(k), Ceil(k)}
                   /\ AssignedTo(assign, w[k].key) = cnt[k].value
            /\ Sum(1) = N
            /\ Len(assign) = N
            /\ \A i \in 0..(N - 1) :
                   Cardinality({j \in 1..Len(assign) : assign[j].key = i}) = 1

C27_Witness ==
    /\ AllocatedPositiveMix
    /\ locals.spec = WeightSpecs[1]
    /\ locals.N = 4
    /\ locals.idxs = <<2, 0, 3, 1>>
    /\ ret.val.left = 4
    /\ DictValues(ret.val.cnt) = <<1, 1, 1, 0, 1, 0, 0>>
    /\ DictGet(ret.val.assign, 2, "") = "wrong0"
    /\ DictGet(ret.val.assign, 1, "") = "one_correct_order"

\* ---------------------------------------------------------------------------
\* meteor_score: the order of its three stages
\* ---------------------------------------------------------------------------

\* The call at position a of the trace raised out of its stage (an exception
\* of __del__ is dropped and ends nothing).
RaisedAt(T, a) == ~T[a].ok /\ T[a].op # "__del__"

\* Stage s raised.
StageRaised(T, s) == \E a \in 1..Len(T) : T[a].stage = s /\ RaisedAt(T, a)

\* The samples stage s scored, in the order of the trace.
ScoredBy(T, s) ==
    LET RECURSIVE From(_)
        From(a) == IF a > Len(T) THEN <<>>
                   ELSE IF T[a].stage = s /\ T[a].ok /\ T[a].op \in {"_score", "nltk_meteor_score"}
                        THEN <<T[a].i>> \o From(a + 1)
                        ELSE From(a + 1)
    IN  From(1)

\* C28: meteor_score tries the batch scorer, then one fresh scorer per sample,
\* then the NLTK scorer, strictly in this order; a later stage runs only after
\* every earlier stage raised; the result returned is that of the first stage
\* that completes, with one score per sample and none of a stage that raised;
\* an exception reaches the caller only from the third stage; and each
\* per-sample scorer has its __del__ called before the next one is created,
\* whether its _score returned or raised.
C28_StagesFallBackInOrder ==
    fn = "meteor_score" =>
        LET T == locals.trace
            n == locals.n
            reached == IF T = <<>> THEN 1 ELSE T[Len(T)].stage
            \* the stage that ended the call: the first one that did not raise
            last == IF ~StageRaised(T, 1) THEN 1
                    ELSE IF ~StageRaised(T, 2) THEN 2 ELSE 3
        IN  /\ locals.pc # "batch" => (T # <<>> /\ T[1].stage = 1)
            /\ \A a, b \in 1..Len(T) : a < b => T[a].stage <= T[b].stage
            /\ \A b \in 1..Len(T) : \A s \in 1..(T[b].stage - 1) :
                   \E a \in 1..(b - 1) : T[a].stage = s /\ RaisedAt(T, a)
            /\ \A a \in 1..Len(T) : RaisedAt(T, a) =>
                   \A b \in (a + 1)..Len(T) :
                       \/ T[b].stage > T[a].stage
                       \/ b = a + 1 /\ T[b].op = "__del__" /\ T[b].i = T[a].i
            /\ locals.pc # "done" => ret = NotCalled
            /\ locals.pc = "per_sample" => reached <= 2
            /\ locals.pc = "done" => reached <= last
            /\ (locals.pc = "done" /\ ret.kind = "ok") =>
                   /\ ~StageRaised(T, last)
                   /\ Len(ret.val.per_sample) = n
                   /\ last = 1 => T[Len(T)].op = "compute_score"
                   /\ last > 1 => ScoredBy(T, last) = [k \in 1..n |-> k]
            /\ (locals.pc = "done" /\ Raised(ret)) =>
                   /\ last = 3
                   /\ RaisedAt(T, Len(T))
                   /\ StageRaised(T, 1)
                   /\ StageRaised(T, 2)
            /\ \A a \in 1..Len(T) :
                   (T[a].stage = 2 /\ T[a].op = "RobustMeteor" /\ T[a].ok) =>
                       /\ a + 2 <= Len(T)
                       /\ T[a + 1].op = "_score" /\ T[a + 1].i = T[a].i
                       /\ T[a + 2].op = "__del__" /\ T[a + 2].i = T[a].i

\* The per-sample stage scored sample 1 with 1/4 and raised in sample 2, whose
\* scorer was released; the NLTK stage returned its own scores.
C28_Witness ==
    /\ fn = "meteor_score"
    /\ locals.pc = "done"
    /\ locals.n = 2
    /\ ScoredBy(locals.trace, 2) = <<1>>
    /\ \E a \in 1..Len(locals.trace) :
           /\ locals.trace[a] = [stage |-> 2, op |-> "_score", i |-> 2, ok |-> FALSE]
           /\ locals.trace[a + 1].op = "__del__"
    /\ ret = PyOk([aggregate |-> FDec(1, 2), per_sample |-> <<FDec(1, 2), FDec(1, 2)>>])

====
